---- MODULE Spec2Model ----
(***************************************************************************)
(* A model of the mtg_decks package: the deck record codec (deck.py), the  *)
(* decklist parser and rule engine (rules.py), the importer (importer.py), *)
(* the library orchestrator (library.py) and the valuation cache           *)
(* (valuation.py).  Text is modelled as a sequence of one-character        *)
(* strings, so that formatting and parsing are computed, not assumed.      *)
(***************************************************************************)
EXTENDS Integers, Sequences, FiniteSets, TLC

VARIABLES
    crec,      \* codec: the Deck handed to to_markdown
    ctext,     \* codec: the text of the file under test
    cloaded,   \* codec: the result of Deck.from_file
    cpc,       \* codec: "start" | "written" | "loaded"
    files,     \* library: file stem -> file text, or NoFile
    before,    \* library: the directory as it was when the last call began
    op,        \* library: the last call and its outcome
    ncalls,    \* library: calls made so far
    cacheFile, \* valuation: the JSON value in the cache file, or JNoFile
    calls,     \* valuation: Card Resolver lookups made by the last call
    vop,       \* valuation: the last call and its outcome
    nvalue,    \* valuation: calls made so far
    logFile,   \* validation: the text of the log file, or NoFile
    vd,        \* validation: the last validate_decks call and its outcome
    nvalidate, \* validation: calls made so far
    rtext,     \* rules: the Markdown text handed to parse_decklist
    rparse,    \* rules: the result of parse_decklist
    rcase,     \* rules: the rule set, deck, counts and commander set validated
    rissues,   \* rules: the violations validate returned
    fin,       \* functions: the function applied and its arguments
    fout,      \* functions: what it returned
    invFile,   \* spares: the text of the inventory file, or NoFile
    iop,       \* spares: the last add_cards call and its outcome
    ninv       \* spares: calls made so far

vars ==
    <<crec, ctext, cloaded, cpc, files, before, op, ncalls, cacheFile, calls, vop, nvalue,
      logFile, vd, nvalidate, rtext, rparse, rcase, rissues, fin, fout, invFile, iop, ninv>>

codecVars == <<crec, ctext, cloaded, cpc>>
libraryVars == <<files, before, op, ncalls>>
valuationVars == <<cacheFile, calls, vop, nvalue>>
validateVars == <<logFile, vd, nvalidate>>
rulesVars == <<rtext, rparse, rcase, rissues>>
functionVars == <<fin, fout>>
inventoryVars == <<invFile, iop, ninv>>

(***************************************************************************)
(* Bounds of the model.                                                    *)
(***************************************************************************)
MaxStrLen == 2
MaxRawLines == 3
MaxColors == 2
MaxCalls == 2
DeckSize == 2

(***************************************************************************)
(* Characters and strings.                                                 *)
(***************************************************************************)
NoneVal == <<"<None>">>
NoFile == <<"<NoFile>">>
NoDeck == [absent |-> TRUE]
NoResult == [pending |-> TRUE]
NoRules == [absent |-> TRUE]

Uppers == <<"A", "B", "C", "D", "E", "F", "G", "H", "I", "J", "K", "L", "M",
            "N", "O", "P", "Q", "R", "S", "T", "U", "V", "W", "X", "Y", "Z">>
Lowers == <<"a", "b", "c", "d", "e", "f", "g", "h", "i", "j", "k", "l", "m",
            "n", "o", "p", "q", "r", "s", "t", "u", "v", "w", "x", "y", "z">>
Digits == <<"0", "1", "2", "3", "4", "5", "6", "7", "8", "9">>

\* body(v) with v computed once, however often body uses it
With(v, body(_)) == CHOOSE out \in {body(x) : x \in {v}} : TRUE

Range(s) == {s[i] : i \in 1..Len(s)}
SetMin(S) == CHOOSE x \in S : \A y \in S : x <= y
SetMax(S) == CHOOSE x \in S : \A y \in S : x >= y

UpperSet == Range(Uppers)
LowerSet == Range(Lowers)
DigitSet == Range(Digits)
SpaceSet == {" ", "\n", "\t"}

isspace(c) == c \in SpaceSet
isdigit(c) == c \in DigitSet
isalnum(c) == c \in UpperSet \/ c \in LowerSet \/ c \in DigitSet

lowerChar(c) ==
    IF c \in UpperSet
    THEN Lowers[CHOOSE i \in 1..Len(Uppers) : Uppers[i] = c]
    ELSE c

lower(s) == [i \in 1..Len(s) |-> lowerChar(s[i])]

strip(s) ==
    LET keep == {i \in 1..Len(s) : ~isspace(s[i])}
    IN  IF keep = {} THEN <<>> ELSE SubSeq(s, SetMin(keep), SetMax(keep))

startswith(s, p) == Len(s) >= Len(p) /\ SubSeq(s, 1, Len(p)) = p

RECURSIVE SplitOn(_, _, _)
SplitOn(s, sep, i) ==
    LET hits == {j \in i..Len(s) : s[j] = sep}
        first == SetMin(hits)
    IN  IF hits = {} THEN <<SubSeq(s, i, Len(s))>>
        ELSE <<SubSeq(s, i, first - 1)>> \o SplitOn(s, sep, first + 1)

\* str.split(sep): always at least one part
split(s, sep) == SplitOn(s, sep, 1)

\* str.splitlines(): no part for the text after a final line break
RECURSIVE LinesFrom(_, _)
LinesFrom(s, i) ==
    IF i > Len(s) THEN <<>>
    ELSE LET hits == {j \in i..Len(s) : s[j] = "\n"}
             first == SetMin(hits)
         IN  IF hits = {} THEN <<SubSeq(s, i, Len(s))>>
             ELSE <<SubSeq(s, i, first - 1)>> \o LinesFrom(s, first + 1)

splitlines(s) == LinesFrom(s, 1)

RECURSIVE join(_, _)
join(sep, parts) ==
    IF parts = <<>> THEN <<>>
    ELSE IF Len(parts) = 1 THEN parts[1]
    ELSE parts[1] \o sep \o join(sep, Tail(parts))

SelectNonEmpty(parts) == SelectSeq(parts, LAMBDA p : p # <<>>)

\* all strings over an alphabet of at most n characters
RECURSIVE StringsUpTo(_, _)
StringsUpTo(alphabet, n) ==
    IF n = 0 THEN {<<>>}
    ELSE LET shorter == StringsUpTo(alphabet, n - 1)
         IN  shorter \cup {Append(s, c) : s \in shorter, c \in alphabet}

(***************************************************************************)
(* deck.py: the Deck record and its codec.                                 *)
(***************************************************************************)
FRONT_MATTER_MARK == <<"-", "-", "-">>

DefaultFormat == <<"C", "o", "m", "m", "a", "n", "d", "e", "r">>
UnknownCommander == <<"U", "n", "k", "n", "o", "w", "n">>

MetaKeys == {"name", "commander", "colors", "theme", "format", "created", "updated", "notes"}

KeyText(k) ==
    CASE k = "name" -> <<"n", "a", "m", "e">>
      [] k = "commander" -> <<"c", "o", "m", "m", "a", "n", "d", "e", "r">>
      [] k = "colors" -> <<"c", "o", "l", "o", "r", "s">>
      [] k = "theme" -> <<"t", "h", "e", "m", "e">>
      [] k = "format" -> <<"f", "o", "r", "m", "a", "t">>
      [] k = "created" -> <<"c", "r", "e", "a", "t", "e", "d">>
      [] k = "updated" -> <<"u", "p", "d", "a", "t", "e", "d">>
      [] k = "notes" -> <<"n", "o", "t", "e", "s">>

\* Python truthiness of an Optional[str]
Truthy(v) == v # NoneVal /\ v # <<>>

Deck(name, commander, colors, theme, format, created, updated, notes) ==
    [name |-> name, commander |-> commander, colors |-> colors, theme |-> theme,
     format |-> format, created |-> created, updated |-> updated, notes |-> notes]

MetaLine(k, value) == KeyText(k) \o <<":", " ">> \o value

front_matter(deck) ==
    <<FRONT_MATTER_MARK>>
    \o <<MetaLine("name", deck.name)>>
    \o <<MetaLine("commander", deck.commander)>>
    \o (IF deck.colors # <<>> THEN <<MetaLine("colors", join(<<",", " ">>, deck.colors))>> ELSE <<>>)
    \o (IF Truthy(deck.theme) THEN <<MetaLine("theme", deck.theme)>> ELSE <<>>)
    \o (IF Truthy(deck.format) THEN <<MetaLine("format", deck.format)>> ELSE <<>>)
    \o (IF Truthy(deck.created) THEN <<MetaLine("created", deck.created)>> ELSE <<>>)
    \o (IF Truthy(deck.updated) THEN <<MetaLine("updated", deck.updated)>> ELSE <<>>)
    \o (IF Truthy(deck.notes) THEN <<MetaLine("notes", deck.notes)>> ELSE <<>>)
    \o <<FRONT_MATTER_MARK>>

body_head(deck) ==
    <<(<<"#", " ">> \o deck.name)>>
    \o <<(<<"*", "*", "C", "o", "m", "m", "a", "n", "d", "e", "r", ":", "*", "*", " ">> \o deck.commander)>>
    \o (IF Truthy(deck.theme)
        THEN <<(<<"*", "*", "T", "h", "e", "m", "e", ":", "*", "*", " ">> \o deck.theme)>>
        ELSE <<>>)
    \o (IF deck.colors # <<>>
        THEN <<(<<"*", "*", "C", "o", "l", "o", "r", "s", ":", "*", "*", " ">>
                \o join(<<",", " ">>, deck.colors))>>
        ELSE <<>>)
    \o <<(<<"\n", "#", "#", " ", "D", "e", "c", "k", "l", "i", "s", "t", "\n">>)>>

CommanderBullet(commander) ==
    <<"-", " ", "[", "C", "o", "m", "m", "a", "n", "d", "e", "r", "]", " ">> \o commander

PlaceholderBullet ==
    <<"-", " ", ".", ".", ".", " ", "a", "d", "d", " ", "t", "h", "e", " ", "r", "e", "s", "t",
      " ", "o", "f", " ", "y", "o", "u", "r", " ", "c", "a", "r", "d", "s", " ", "h", "e", "r",
      "e", " ", ".", ".", ".">>

render(deck, bullets) ==
    join(<<"\n">>, front_matter(deck) \o <<(<<"\n">>)>> \o body_head(deck) \o bullets) \o <<"\n">>

to_markdown(deck) ==
    render(deck, <<CommanderBullet(deck.commander), PlaceholderBullet>>)

\* the call made by import_deck: the Decklist section holds the lines supplied
to_markdown_decklist(deck, decklist_lines) == render(deck, decklist_lines)

EmptyMeta == [k \in MetaKeys |-> NoneVal]

MetaPut(meta, key, value) ==
    IF \E k \in MetaKeys : KeyText(k) = key
    THEN [meta EXCEPT ![CHOOSE k \in MetaKeys : KeyText(k) = key] = value]
    ELSE meta

RECURSIVE ScanMeta(_, _, _)
ScanMeta(lines, idx, meta) ==
    IF idx > Len(lines) THEN meta
    ELSE LET line == strip(lines[idx])
         IN  IF line = FRONT_MATTER_MARK THEN meta
             ELSE IF line # <<>> /\ ":" \in Range(line)
                  THEN LET colon == SetMin({j \in 1..Len(line) : line[j] = ":"})
                       IN  ScanMeta(lines, idx + 1,
                                    MetaPut(meta, strip(SubSeq(line, 1, colon - 1)),
                                            strip(SubSeq(line, colon + 1, Len(line)))))
                  ELSE ScanMeta(lines, idx + 1, meta)

split_csv_unstripped(value) ==
    IF value = <<>> THEN <<>> ELSE SelectNonEmpty(split(value, ","))

split_csv(value) ==
    IF value = <<>> THEN <<>>
    ELSE SelectNonEmpty([i \in 1..Len(split(value, ",")) |-> strip(split(value, ",")[i])])

StemToName(stem) == [i \in 1..Len(stem) |-> IF stem[i] = "-" THEN " " ELSE stem[i]]

\* Deck.from_file(path): stem is path.stem, text the file's content.  The
\* result is always a Deck: the function has no raise statement.
from_file(stem, text) ==
    With(splitlines(text), LAMBDA lines :
    With(IF lines # <<>> /\ strip(lines[1]) = FRONT_MATTER_MARK
         THEN ScanMeta(lines, 2, EmptyMeta)
         ELSE EmptyMeta, LAMBDA metadata :
        [ok |-> TRUE,
         deck |-> Deck(IF Truthy(metadata.name) THEN metadata.name ELSE StemToName(stem),
                       IF metadata.commander # NoneVal THEN metadata.commander ELSE UnknownCommander,
                       split_csv(IF metadata.colors # NoneVal THEN metadata.colors ELSE <<>>),
                       metadata.theme,
                       IF metadata.format # NoneVal THEN metadata.format ELSE DefaultFormat,
                       metadata.created,
                       metadata.updated,
                       metadata.notes)]))

\* every other character kept as an underscore
RECURSIVE slug_chars_marking(_, _, _)
slug_chars_marking(low, i, last_dash) ==
    IF i > Len(low) THEN <<>>
    ELSE IF isalnum(low[i]) THEN <<low[i]>> \o slug_chars_marking(low, i + 1, FALSE)
    ELSE IF low[i] \in {" ", "-", "_"}
         THEN IF ~last_dash THEN <<"-">> \o slug_chars_marking(low, i + 1, TRUE)
              ELSE slug_chars_marking(low, i + 1, last_dash)
    ELSE <<"_">> \o slug_chars_marking(low, i + 1, FALSE)

RECURSIVE slug_chars(_, _, _)
slug_chars(low, i, last_dash) ==
    IF i > Len(low) THEN <<>>
    ELSE IF isalnum(low[i]) THEN <<low[i]>> \o slug_chars(low, i + 1, FALSE)
    ELSE IF low[i] \in {" ", "-", "_"}
         THEN IF ~last_dash THEN <<"-">> \o slug_chars(low, i + 1, TRUE)
              ELSE slug_chars(low, i + 1, last_dash)
    ELSE slug_chars(low, i + 1, last_dash)

\* dashes removed at the front only
strip_dashes_leading(s) ==
    LET keep == {i \in 1..Len(s) : s[i] # "-"}
    IN  IF keep = {} THEN <<>> ELSE SubSeq(s, SetMin(keep), Len(s))

strip_dashes(s) ==
    LET keep == {i \in 1..Len(s) : s[i] # "-"}
    IN  IF keep = {} THEN <<>> ELSE SubSeq(s, SetMin(keep), SetMax(keep))

slugify(text) ==
    LET slug == strip_dashes(slug_chars(lower(text), 1, FALSE))
    IN  IF slug = <<>> THEN <<"d", "e", "c", "k">> ELSE slug

(***************************************************************************)
(* rules.py: the decklist parser and the rule engine.  A DeckCounts dict   *)
(* is a sequence of [name, count] entries in insertion order.              *)
(***************************************************************************)
RECURSIVE ParseInt(_)
ParseInt(ds) ==
    IF ds = <<>> THEN 0
    ELSE 10 * ParseInt(SubSeq(ds, 1, Len(ds) - 1))
         + (CHOOSE v \in 0..9 : Digits[v + 1] = ds[Len(ds)])

CountsGet(counts, name) ==
    IF \E i \in 1..Len(counts) : counts[i].name = name
    THEN counts[CHOOSE i \in 1..Len(counts) : counts[i].name = name].count
    ELSE 0

\* a later bullet replacing what was counted for the name
CountsAdd_overwriting(counts, name, count) ==
    IF \E i \in 1..Len(counts) : counts[i].name = name
    THEN [i \in 1..Len(counts) |->
            IF counts[i].name = name THEN [name |-> name, count |-> count] ELSE counts[i]]
    ELSE Append(counts, [name |-> name, count |-> count])

\* card_counts[name] = card_counts.get(name, 0) + count
CountsAdd(counts, name, count) ==
    IF \E i \in 1..Len(counts) : counts[i].name = name
    THEN [i \in 1..Len(counts) |->
            IF counts[i].name = name
            THEN [name |-> name, count |-> counts[i].count + count]
            ELSE counts[i]]
    ELSE Append(counts, [name |-> name, count |-> count])

RECURSIVE SumCounts(_)
SumCounts(counts) ==
    IF counts = <<>> THEN 0 ELSE counts[1].count + SumCounts(Tail(counts))

lstrip_dashes(s) ==
    LET keep == {i \in 1..Len(s) : s[i] # "-"}
    IN  IF keep = {} THEN <<>> ELSE SubSeq(s, SetMin(keep), Len(s))

CommanderTag == <<"[", "c", "o", "m", "m", "a", "n", "d", "e", "r", "]">>
DecklistHeading == <<"#", "#", " ", "d", "e", "c", "k", "l", "i", "s", "t">>

\* re.compile(r"^(?P<count>\d+)x?\s+(?P<name>.+)$").match(entry), entry stripped
bullet_pattern(entry) ==
    LET nondigit == {i \in 1..Len(entry) : ~isdigit(entry[i])}
        d == IF nondigit = {} THEN Len(entry) ELSE SetMin(nondigit) - 1
        afterx == IF d < Len(entry) /\ entry[d + 1] = "x" THEN d + 1 ELSE d
        rest == {i \in (afterx + 1)..Len(entry) : ~isspace(entry[i])}
    IN  IF d >= 1 /\ afterx < Len(entry) /\ isspace(entry[afterx + 1]) /\ rest # {}
        THEN [matched |-> TRUE,
              count |-> ParseInt(SubSeq(entry, 1, d)),
              name |-> SubSeq(entry, SetMin(rest), Len(entry))]
        ELSE [matched |-> FALSE]

RECURSIVE parse_bullets(_, _, _, _)
parse_bullets(lines, idx, card_counts, commander_names) ==
    IF idx > Len(lines)
    THEN [ok |-> TRUE, counts |-> card_counts, commanders |-> commander_names]
    ELSE LET stripped == strip(lines[idx])
         IN  IF stripped = <<>>
             THEN parse_bullets(lines, idx + 1, card_counts, commander_names)
             ELSE IF startswith(stripped, <<"#">>) /\ ~startswith(stripped, <<"-">>)
             THEN [ok |-> TRUE, counts |-> card_counts, commanders |-> commander_names]
             ELSE IF ~startswith(stripped, <<"-">>)
             THEN parse_bullets(lines, idx + 1, card_counts, commander_names)
             ELSE LET entry0 == strip(lstrip_dashes(stripped))
                      is_commander == startswith(lower(entry0), CommanderTag)
                      entry == IF is_commander
                               THEN strip(SubSeq(entry0, Len(CommanderTag) + 1, Len(entry0)))
                               ELSE entry0
                      match == bullet_pattern(entry)
                      count == IF match.matched THEN match.count ELSE 1
                      name == IF match.matched THEN strip(match.name) ELSE entry
                  IN  parse_bullets(lines, idx + 1, CountsAdd(card_counts, name, count),
                                    IF is_commander THEN commander_names \cup {name}
                                    ELSE commander_names)

\* bullets read from the top of the text once the heading is known to exist
parse_decklist_from_top(markdown) ==
    With(splitlines(markdown), LAMBDA lines :
    With({i \in 1..Len(lines) : lower(strip(lines[i])) = DecklistHeading}, LAMBDA heads :
    IF heads = {} THEN [ok |-> FALSE, error |-> "No '## Decklist' section found"]
    ELSE parse_bullets(lines, 1, <<>>, {})))

parse_decklist(markdown) ==
    With(splitlines(markdown), LAMBDA lines :
    With({i \in 1..Len(lines) : lower(strip(lines[i])) = DecklistHeading}, LAMBDA heads :
    IF heads = {} THEN [ok |-> FALSE, error |-> "No '## Decklist' section found"]
    ELSE parse_bullets(lines, SetMin(heads) + 1, <<>>, {})))

\* load_decklist(path): parse_decklist of the file's text
load_decklist(text) == parse_decklist(text)

SnowCovered(land) == <<"S", "n", "o", "w", "-", "C", "o", "v", "e", "r", "e", "d", " ">> \o land

PlainLands ==
    {<<"P", "l", "a", "i", "n", "s">>, <<"I", "s", "l", "a", "n", "d">>,
     <<"S", "w", "a", "m", "p">>, <<"M", "o", "u", "n", "t", "a", "i", "n">>,
     <<"F", "o", "r", "e", "s", "t">>}

DefaultBasicLands ==
    PlainLands \cup {<<"W", "a", "s", "t", "e", "s">>} \cup {SnowCovered(l) : l \in PlainLands}

CommanderRules(deck_size, expected_format, allow_duplicate_basics, require_commander_tag, max_commander_entries, banned_cards) ==
    [deck_size |-> deck_size, expected_format |-> expected_format,
     allow_duplicate_basics |-> allow_duplicate_basics,
     require_commander_tag |-> require_commander_tag,
     max_commander_entries |-> max_commander_entries,
     basic_lands |-> DefaultBasicLands, banned_cards |-> banned_cards]

casefold(s) == lower(s)

\* a banned card reported only when it is listed once
RECURSIVE card_errors_banned_singles(_, _, _)
card_errors_banned_singles(rules, card_counts, i) ==
    IF i > Len(card_counts) THEN <<>>
    ELSE LET name == card_counts[i].name
             count == card_counts[i].count
         IN  (IF count > 1 /\ ~(rules.allow_duplicate_basics
                                /\ casefold(name) \in {casefold(b) : b \in rules.basic_lands})
              THEN <<[kind |-> "repeat", name |-> name, count |-> count]>>
              ELSE IF casefold(name) \in {casefold(b) : b \in rules.banned_cards}
              THEN <<[kind |-> "banned", name |-> name, format |-> rules.expected_format]>>
              ELSE <<>>)
             \o card_errors_banned_singles(rules, card_counts, i + 1)

\* basic lands free to repeat whatever the rule set says
RECURSIVE card_errors_basics_repeat(_, _, _)
card_errors_basics_repeat(rules, card_counts, i) ==
    IF i > Len(card_counts) THEN <<>>
    ELSE LET name == card_counts[i].name
             count == card_counts[i].count
         IN  (IF casefold(name) \in {casefold(b) : b \in rules.banned_cards}
              THEN <<[kind |-> "banned", name |-> name, format |-> rules.expected_format]>>
              ELSE <<>>)
             \o (IF count > 1 /\ casefold(name) \notin {casefold(b) : b \in rules.basic_lands}
                 THEN <<[kind |-> "repeat", name |-> name, count |-> count]>>
                 ELSE <<>>)
             \o card_errors_basics_repeat(rules, card_counts, i + 1)

RECURSIVE card_errors(_, _, _)
card_errors(rules, card_counts, i) ==
    IF i > Len(card_counts) THEN <<>>
    ELSE LET name == card_counts[i].name
             count == card_counts[i].count
         IN  (IF casefold(name) \in {casefold(b) : b \in rules.banned_cards}
              THEN <<[kind |-> "banned", name |-> name, format |-> rules.expected_format]>>
              ELSE <<>>)
             \o (IF count > 1 /\ ~(rules.allow_duplicate_basics
                                   /\ casefold(name) \in {casefold(b) : b \in rules.basic_lands})
                 THEN <<[kind |-> "repeat", name |-> name, count |-> count]>>
                 ELSE <<>>)
             \o card_errors(rules, card_counts, i + 1)

\* a tagged commander whose count is never looked at
commander_errors_uncounted(rules, deck, card_counts, commander_entries) ==
    LET matching == {n \in commander_entries : casefold(n) = casefold(deck.commander)}
        wrong == {n \in matching : CountsGet(card_counts, n) # 1}
        commander_present ==
            IF commander_entries # {} THEN matching # {}
            ELSE /\ ~rules.require_commander_tag
                 /\ \E i \in 1..Len(card_counts) :
                       casefold(card_counts[i].name) = casefold(deck.commander)
        missing_commander_reported ==
            IF commander_entries # {} THEN matching = {} ELSE rules.require_commander_tag
    IN  (IF commander_entries # {}
         THEN (IF Cardinality(commander_entries) > rules.max_commander_entries
               THEN <<[kind |-> "too_many_commanders", found |-> Cardinality(commander_entries),
                       maximum |-> rules.max_commander_entries]>>
               ELSE <<>>)
              \o (IF matching = {}
                  THEN <<[kind |-> "not_marked", commander |-> deck.commander]>>
                  ELSE <<>>)
         ELSE IF rules.require_commander_tag THEN <<[kind |-> "missing"]>> ELSE <<>>)
        \o (IF ~commander_present /\ ~missing_commander_reported
            THEN <<[kind |-> "missing"]>>
            ELSE <<>>)

\* a limit that is reached, not exceeded
commander_errors_at_limit(rules, deck, card_counts, commander_entries) ==
    LET matching == {n \in commander_entries : casefold(n) = casefold(deck.commander)}
        wrong == {n \in matching : CountsGet(card_counts, n) # 1}
        commander_present ==
            IF commander_entries # {} THEN matching # {}
            ELSE /\ ~rules.require_commander_tag
                 /\ \E i \in 1..Len(card_counts) :
                       casefold(card_counts[i].name) = casefold(deck.commander)
        missing_commander_reported ==
            IF commander_entries # {} THEN matching = {} ELSE rules.require_commander_tag
    IN  (IF commander_entries # {}
         THEN (IF Cardinality(commander_entries) >= rules.max_commander_entries
               THEN <<[kind |-> "too_many_commanders", found |-> Cardinality(commander_entries),
                       maximum |-> rules.max_commander_entries]>>
               ELSE <<>>)
              \o [i \in 1..Cardinality(wrong) |-> [kind |-> "commander_once"]]
              \o (IF matching = {}
                  THEN <<[kind |-> "not_marked", commander |-> deck.commander]>>
                  ELSE <<>>)
         ELSE IF rules.require_commander_tag THEN <<[kind |-> "missing"]>> ELSE <<>>)
        \o (IF ~commander_present /\ ~missing_commander_reported
            THEN <<[kind |-> "missing"]>>
            ELSE <<>>)

\* the flag that a missing commander was reported never set
commander_errors_unflagged(rules, deck, card_counts, commander_entries) ==
    LET matching == {n \in commander_entries : casefold(n) = casefold(deck.commander)}
        wrong == {n \in matching : CountsGet(card_counts, n) # 1}
        commander_present ==
            IF commander_entries # {} THEN matching # {}
            ELSE /\ ~rules.require_commander_tag
                 /\ \E i \in 1..Len(card_counts) :
                       casefold(card_counts[i].name) = casefold(deck.commander)
        missing_commander_reported == FALSE
    IN  (IF commander_entries # {}
         THEN (IF Cardinality(commander_entries) > rules.max_commander_entries
               THEN <<[kind |-> "too_many_commanders", found |-> Cardinality(commander_entries),
                       maximum |-> rules.max_commander_entries]>>
               ELSE <<>>)
              \o [i \in 1..Cardinality(wrong) |-> [kind |-> "commander_once"]]
              \o (IF matching = {}
                  THEN <<[kind |-> "not_marked", commander |-> deck.commander]>>
                  ELSE <<>>)
         ELSE IF rules.require_commander_tag THEN <<[kind |-> "missing"]>> ELSE <<>>)
        \o (IF ~commander_present /\ ~missing_commander_reported
            THEN <<[kind |-> "missing"]>>
            ELSE <<>>)

commander_errors(rules, deck, card_counts, commander_entries) ==
    LET matching == {n \in commander_entries : casefold(n) = casefold(deck.commander)}
        wrong == {n \in matching : CountsGet(card_counts, n) # 1}
        commander_present ==
            IF commander_entries # {} THEN matching # {}
            ELSE /\ ~rules.require_commander_tag
                 /\ \E i \in 1..Len(card_counts) :
                       casefold(card_counts[i].name) = casefold(deck.commander)
        missing_commander_reported ==
            IF commander_entries # {} THEN matching = {} ELSE rules.require_commander_tag
    IN  (IF commander_entries # {}
         THEN (IF Cardinality(commander_entries) > rules.max_commander_entries
               THEN <<[kind |-> "too_many_commanders", found |-> Cardinality(commander_entries),
                       maximum |-> rules.max_commander_entries]>>
               ELSE <<>>)
              \o [i \in 1..Cardinality(wrong) |-> [kind |-> "commander_once"]]
              \o (IF matching = {}
                  THEN <<[kind |-> "not_marked", commander |-> deck.commander]>>
                  ELSE <<>>)
         ELSE IF rules.require_commander_tag THEN <<[kind |-> "missing"]>> ELSE <<>>)
        \o (IF ~commander_present /\ ~missing_commander_reported
            THEN <<[kind |-> "missing"]>>
            ELSE <<>>)

\* CommanderRules.validate(deck, card_counts, commander_entries)
validate(rules, deck, card_counts, commander_entries) ==
    (IF Truthy(deck.format) /\ lower(deck.format) # lower(rules.expected_format)
     THEN <<[kind |-> "format", expected |-> rules.expected_format]>>
     ELSE <<>>)
    \o (IF SumCounts(card_counts) # rules.deck_size
        THEN <<[kind |-> "size", expected |-> rules.deck_size,
                found |-> SumCounts(card_counts)]>>
        ELSE <<>>)
    \o card_errors(rules, card_counts, 1)
    \o commander_errors(rules, deck, card_counts, commander_entries)

(***************************************************************************)
(* importer.py: free-form card rows, the Card Resolver and import_deck.    *)
(***************************************************************************)
RECURSIVE ToDigits(_)
ToDigits(n) == IF n < 10 THEN <<Digits[n + 1]>> ELSE ToDigits(n \div 10) \o <<Digits[(n % 10) + 1]>>

str_isdigit(s) == s # <<>> /\ \A i \in 1..Len(s) : isdigit(s[i])

\* line.split(maxsplit=1) of a stripped, non-empty line
split_first(line) ==
    LET spaces == {i \in 1..Len(line) : isspace(line[i])}
    IN  IF spaces = {} THEN <<line>>
        ELSE LET rest == {i \in SetMin(spaces)..Len(line) : ~isspace(line[i])}
             IN  <<SubSeq(line, 1, SetMin(spaces) - 1), SubSeq(line, SetMin(rest), Len(line))>>

\* one row of csv.reader: the cells of a line (no quoting in the inputs modelled)
csv_row(line) == IF line = <<>> THEN <<>> ELSE split(line, ",")

import_row(row) ==
    IF Len(row) >= 2
    THEN LET count_text == strip(row[1])
             name == strip(join(<<",">>, Tail(row)))
         IN  [count |-> IF str_isdigit(count_text) THEN ParseInt(count_text) ELSE 1,
              name |-> name]
    ELSE LET line == strip(row[1])
             parts == split_first(line)
         IN  IF Len(parts) = 2 /\ str_isdigit(parts[1])
             THEN [count |-> ParseInt(parts[1]), name |-> parts[2]]
             ELSE [count |-> 1, name |-> line]

RECURSIVE import_rows(_, _)
import_rows(lines, i) ==
    IF i > Len(lines) THEN <<>>
    ELSE LET row == csv_row(lines[i])
         IN  IF row = <<>> \/ strip(join(<<>>, row)) = <<>>
             THEN import_rows(lines, i + 1)
             ELSE <<import_row(row)>> \o import_rows(lines, i + 1)

parse_import_rows(text) == import_rows(splitlines(text), 1)

\* CardResolver.resolve: a resolver is a table of [query, name, color_identity, prices]
resolve(resolver, query) ==
    IF \E e \in resolver : e.query = query
    THEN LET e == CHOOSE e \in resolver : e.query = query
         IN  [found |-> TRUE, name |-> e.name, color_identity |-> e.color_identity,
              prices |-> e.prices]
    ELSE [found |-> FALSE]

Today == <<"2", "4", "-", "0", "1">>

RECURSIVE normalize_cards(_, _, _)
normalize_cards(resolver, entries, i) ==
    IF i > Len(entries) THEN [cards |-> <<>>, warnings |-> <<>>]
    ELSE LET name == entries[i].name
             resolved == resolve(resolver, name)
             normalized == strip(IF resolved.found THEN resolved.name ELSE name)
             rest == normalize_cards(resolver, entries, i + 1)
         IN  [cards |-> <<[count |-> entries[i].count, name |-> normalized]>> \o rest.cards,
              warnings |->
                  (IF ~resolved.found THEN <<[kind |-> "as_is", name |-> name]>>
                   ELSE IF casefold(normalized) # casefold(name)
                        THEN <<[kind |-> "resolved", name |-> name, to |-> normalized]>>
                        ELSE <<>>)
                  \o rest.warnings]

RECURSIVE filter_commander(_, _, _)
filter_commander(cards, commander_name, i) ==
    IF i > Len(cards) THEN [cards |-> <<>>, warnings |-> <<>>]
    ELSE LET rest == filter_commander(cards, commander_name, i + 1)
         IN  IF casefold(cards[i].name) = casefold(commander_name)
             THEN [cards |-> rest.cards,
                   warnings |-> (IF cards[i].count > 1 THEN <<[kind |-> "multiple_commander"]>>
                                 ELSE <<>>) \o rest.warnings]
             ELSE [cards |-> <<cards[i]>> \o rest.cards, warnings |-> rest.warnings]

card_bullet(card) ==
    <<"-", " ">> \o (IF card.count > 1 THEN ToDigits(card.count) \o <<"x", " ">> ELSE <<>>)
    \o card.name

\* a check that never sees the file
exists_never(dir, stem) == FALSE

\* Path.exists()
exists(dir, stem) == dir[stem] # NoFile

\* an unlink that leaves the file in place
unlink_noop(dir, stem) == dir

\* deck_path.unlink(missing_ok=True)
unlink(dir, stem) == [dir EXCEPT ![stem] = NoFile]

write_text(dir, stem, text) == [dir EXCEPT ![stem] = text]

\* import_deck(library_root=dir, ...): the directory afterwards and the outcome;
\* deck and written record the Deck built and the text written at line 167
import_deck(dir, deck_name, commander, card_text, colors, deck_format, overwrite, resolver, rules) ==
    LET entries == parse_import_rows(card_text)
        resolved_commander == resolve(resolver, commander)
        commander_name == strip(IF resolved_commander.found THEN resolved_commander.name
                                ELSE commander)
        commander_warnings ==
            (IF casefold(commander_name) # casefold(commander)
             THEN <<[kind |-> "commander_resolved", name |-> commander, to |-> commander_name]>>
             ELSE <<>>)
            \o (IF ~resolved_commander.found
                THEN <<[kind |-> "commander_lookup_failed", name |-> commander]>>
                ELSE <<>>)
        deck_colors == IF colors # <<>> THEN colors
                       ELSE IF resolved_commander.found /\ resolved_commander.color_identity # <<>>
                            THEN resolved_commander.color_identity
                            ELSE <<>>
        normalized == normalize_cards(resolver, entries, 1)
        filtered == filter_commander(normalized.cards, commander_name, 1)
        warnings == commander_warnings \o normalized.warnings \o filtered.warnings
        decklist_lines == <<CommanderBullet(commander_name)>>
                          \o [i \in 1..Len(filtered.cards) |-> card_bullet(filtered.cards[i])]
        deck == Deck(deck_name, commander_name, deck_colors, NoneVal, deck_format, Today,
                     NoneVal, NoneVal)
        deck_path == slugify(deck_name)
        written == write_text(dir, deck_path, to_markdown_decklist(deck, decklist_lines))
        loaded == load_decklist(written[deck_path])
        violations == validate(rules, deck, loaded.counts, loaded.commanders)
    IN  IF entries = <<>>
        THEN [files |-> dir, deck |-> NoDeck, written |-> NoFile,
              result |-> [status |-> "ValueError", why |-> "No cards provided to import"]]
        ELSE IF exists(dir, deck_path) /\ ~overwrite
        THEN [files |-> dir, deck |-> deck, written |-> NoFile,
              result |-> [status |-> "FileExistsError", path |-> deck_path]]
        ELSE IF rules = NoRules
        THEN [files |-> written, deck |-> deck, written |-> written[deck_path],
              result |-> [status |-> "ok", path |-> deck_path, warnings |-> warnings,
                          commander |-> commander_name, cards |-> decklist_lines]]
        ELSE IF ~loaded.ok
        THEN [files |-> written, deck |-> deck, written |-> written[deck_path],
              result |-> [status |-> "ValueError", why |-> loaded.error]]
        ELSE IF violations # <<>>
        THEN [files |-> unlink(written, deck_path), deck |-> deck, written |-> written[deck_path],
              result |-> [status |-> "ValueError", why |-> "violations",
                          message |-> violations]]
        ELSE [files |-> written, deck |-> deck, written |-> written[deck_path],
              result |-> [status |-> "ok", path |-> deck_path, warnings |-> warnings,
                          commander |-> commander_name, cards |-> decklist_lines]]

(***************************************************************************)
(* library.py: DeckLibrary.create_deck.                                    *)
(***************************************************************************)
create_deck(dir, name, commander, colors, deck_format, template) ==
    LET target == slugify(name)
        deck == Deck(name, commander, colors, NoneVal, deck_format, Today, NoneVal, NoneVal)
    IN  IF exists(dir, target)
        THEN [files |-> dir, result |-> [status |-> "FileExistsError", path |-> target]]
        ELSE IF template = "missing"
        THEN [files |-> dir, result |-> [status |-> "FileNotFoundError"]]
        ELSE [files |-> write_text(dir, target, to_markdown(deck)),
              result |-> [status |-> "ok", path |-> target]]

(***************************************************************************)
(* library.py: deck_files and read_deck.                                   *)
(***************************************************************************)
\* the characters of the model in code-point order
CharOrder == <<"\t", "\n", " ", "#", "*", ",", "-", ".">> \o Digits \o <<":">> \o Uppers
             \o <<"[", "]", "_">> \o Lowers
ord(c) == CHOOSE i \in 1..Len(CharOrder) : CharOrder[i] = c

str_less(a, b) ==
    \E i \in 1..(Len(a) + 1) :
        /\ i <= Len(b)
        /\ \A j \in 1..(i - 1) : a[j] = b[j]
        /\ (i = Len(a) + 1 \/ ord(a[i]) < ord(b[i]))

FileName(stem) == stem \o <<".", "m", "d">>

\* sorted(self.root.glob("*.md")), as the stems of the files
RECURSIVE sorted_stems(_)
sorted_stems(S) ==
    IF S = {} THEN <<>>
    ELSE LET first == CHOOSE s \in S :
                        \A t \in S \ {s} : str_less(FileName(s), FileName(t))
         IN  <<first>> \o sorted_stems(S \ {first})

deck_files(dir) == sorted_stems({s \in DOMAIN dir : dir[s] # NoFile})

\* DeckLibrary.read_deck(name_or_slug)
read_deck(dir, name_or_slug) ==
    LET slug == slugify(name_or_slug)
    IN  IF slug \notin DOMAIN dir \/ ~exists(dir, slug)
        THEN [ok |-> FALSE, error |-> "FileNotFoundError"]
        ELSE [ok |-> TRUE, path |-> slug, deck |-> from_file(slug, dir[slug]).deck]

(***************************************************************************)
(* valuation.py: DeckValuer and ValuationCache.  A price is a number of    *)
(* hundredths; a datetime is a record; the cache file holds a JSON value.  *)
(***************************************************************************)
DeckValuation(currency, total, missing_prices) ==
    [currency |-> currency, total |-> total, missing_prices |-> missing_prices]

upper(s) ==
    [i \in 1..Len(s) |->
        IF s[i] \in LowerSet
        THEN Uppers[CHOOSE k \in 1..Len(Lowers) : Lowers[k] = s[i]]
        ELSE s[i]]

\* float(raw_price) for the decimal strings "d+" and "d+.dd"
float_of(raw) ==
    LET dots == {i \in 1..Len(raw) : raw[i] = "."}
    IN  IF dots = {}
        THEN IF str_isdigit(raw) THEN [ok |-> TRUE, value |-> 100 * ParseInt(raw)]
             ELSE [ok |-> FALSE]
        ELSE LET d == SetMin(dots)
                 whole == SubSeq(raw, 1, d - 1)
                 frac == SubSeq(raw, d + 1, Len(raw))
             IN  IF str_isdigit(whole) /\ str_isdigit(frac) /\ Len(frac) = 2
                 THEN [ok |-> TRUE, value |-> 100 * ParseInt(whole) + ParseInt(frac)]
                 ELSE [ok |-> FALSE]

NoPrices == [absent |-> TRUE]
NoPrice == [found |-> FALSE]

prices_get(prices, key) ==
    IF key \in DOMAIN prices THEN prices[key] ELSE NoneVal

\* DeckValuer.price_card(name, currency)
price_card(resolver, name, currency) ==
    With(resolve(resolver, name), LAMBDA card :
    IF ~card.found \/ card.prices = NoPrices THEN NoPrice
    ELSE
    With(prices_get(card.prices, lower(currency)), LAMBDA low :
    With(IF Truthy(low) THEN low ELSE prices_get(card.prices, upper(currency)), LAMBDA raw :
    IF ~Truthy(raw) THEN NoPrice
    ELSE With(float_of(raw), LAMBDA price :
              IF price.ok THEN [found |-> TRUE, value |-> price.value] ELSE NoPrice))))

\* every priced card counted once, however many copies are listed
RECURSIVE value_counts_from_singles(_, _, _, _)
value_counts_from_singles(resolver, card_counts, currency, i) ==
    IF i > Len(card_counts) THEN [total |-> 0, missing |-> <<>>, queries |-> <<>>]
    ELSE
    With(card_counts[i].name, LAMBDA name :
    With(price_card(resolver, name, currency), LAMBDA price :
    With(value_counts_from_singles(resolver, card_counts, currency, i + 1), LAMBDA rest :
    IF ~price.found
    THEN [total |-> rest.total, missing |-> <<name>> \o rest.missing,
          queries |-> <<name>> \o rest.queries]
    ELSE [total |-> price.value + rest.total,
          missing |-> rest.missing, queries |-> <<name>> \o rest.queries])))

\* DeckValuer.value_counts(card_counts, currency=currency), with the lookups made
RECURSIVE value_counts_from(_, _, _, _)
value_counts_from(resolver, card_counts, currency, i) ==
    IF i > Len(card_counts) THEN [total |-> 0, missing |-> <<>>, queries |-> <<>>]
    ELSE
    With(card_counts[i].name, LAMBDA name :
    With(price_card(resolver, name, currency), LAMBDA price :
    With(value_counts_from(resolver, card_counts, currency, i + 1), LAMBDA rest :
    IF ~price.found
    THEN [total |-> rest.total, missing |-> <<name>> \o rest.missing,
          queries |-> <<name>> \o rest.queries]
    ELSE [total |-> price.value * card_counts[i].count + rest.total,
          missing |-> rest.missing, queries |-> <<name>> \o rest.queries])))

value_counts(resolver, card_counts, currency) ==
    With(value_counts_from(resolver, card_counts, currency, 1), LAMBDA v :
    [valuation |-> DeckValuation(currency, v.total, v.missing), queries |-> v.queries])

DateTime(year, month, day, hour, minute, second, microsecond) ==
    [year |-> year, month |-> month, day |-> day, hour |-> hour, minute |-> minute,
     second |-> second, microsecond |-> microsecond]

Pad(n, width) ==
    LET ds == ToDigits(n)
    IN  [i \in 1..(width - Len(ds)) |-> "0"] \o ds

\* dt.replace(microsecond=0).isoformat()
isoformat_seconds(dt) ==
    Pad(dt.year, 4) \o <<"-">> \o Pad(dt.month, 2) \o <<"-">> \o Pad(dt.day, 2) \o <<"T">>
    \o Pad(dt.hour, 2) \o <<":">> \o Pad(dt.minute, 2) \o <<":">> \o Pad(dt.second, 2)

\* datetime.fromisoformat(text) for "YYYY-MM-DD" and "YYYY-MM-DDTHH:MM:SS"
fromisoformat(text) ==
    LET field(a, b) == SubSeq(text, a, b)
        date_ok == /\ Len(text) >= 10
                   /\ str_isdigit(field(1, 4)) /\ text[5] = "-"
                   /\ str_isdigit(field(6, 7)) /\ text[8] = "-"
                   /\ str_isdigit(field(9, 10))
                   /\ ParseInt(field(1, 4)) >= 1
                   /\ ParseInt(field(6, 7)) \in 1..12
                   /\ ParseInt(field(9, 10)) \in 1..31
        time_ok == /\ Len(text) = 19
                   /\ text[11] \in {"T", " "}
                   /\ str_isdigit(field(12, 13)) /\ text[14] = ":"
                   /\ str_isdigit(field(15, 16)) /\ text[17] = ":"
                   /\ str_isdigit(field(18, 19))
                   /\ ParseInt(field(12, 13)) < 24
                   /\ ParseInt(field(15, 16)) < 60
                   /\ ParseInt(field(18, 19)) < 60
    IN  IF date_ok /\ Len(text) = 10
        THEN [ok |-> TRUE,
              value |-> DateTime(ParseInt(field(1, 4)), ParseInt(field(6, 7)),
                                 ParseInt(field(9, 10)), 0, 0, 0, 0)]
        ELSE IF date_ok /\ time_ok
        THEN [ok |-> TRUE,
              value |-> DateTime(ParseInt(field(1, 4)), ParseInt(field(6, 7)),
                                 ParseInt(field(9, 10)), ParseInt(field(12, 13)),
                                 ParseInt(field(15, 16)), ParseInt(field(18, 19)), 0)]
        ELSE [ok |-> FALSE]

\* JSON values of the cache file
JNoFile == [t |-> "nofile"]
JInvalid == [t |-> "invalid"]
JArray == [t |-> "array"]
JMissing == [t |-> "missing"]
JMap(entries) == [t |-> "map", entries |-> entries]
JCache(decks) == [t |-> "object", decks |-> decks]

NoEntries == [n \in {} |-> NoneVal]
EmptyData == JCache(JMap(NoEntries))

\* ValuationCache(path)
cache_new == [data |-> EmptyData, loaded |-> FALSE]

\* ValuationCache.load()
cache_load(cache, file) ==
    IF cache.loaded THEN [ok |-> TRUE, cache |-> cache]
    ELSE LET read == IF file = JNoFile THEN cache.data
                     ELSE IF file = JInvalid THEN EmptyData
                     ELSE file
         IN  IF read.t # "object" THEN [ok |-> FALSE, error |-> "AttributeError"]
             ELSE [ok |-> TRUE,
                   cache |-> [data |-> IF read.decks = JMissing THEN EmptyData ELSE read,
                              loaded |-> TRUE]]

\* a freshness test that compares the month alone
entry_is_current_month_only(valued_at, now) ==
    \E timestamp \in {fromisoformat(valued_at)} :
        /\ timestamp.ok
        /\ timestamp.value.month = now.month

\* ValuationCache._entry_is_current(valued_at, now=now)
entry_is_current(valued_at, now) ==
    \E timestamp \in {fromisoformat(valued_at)} :
        /\ timestamp.ok
        /\ timestamp.value.year = now.year
        /\ timestamp.value.month = now.month

Absent == [present |-> FALSE]
Present(valuation) == [present |-> TRUE, valuation |-> valuation]

\* a get that finds no entry
cache_get_never(cache, file, deck_name, currency, now) ==
    LET l == cache_load(cache, file)
    IN  IF ~l.ok THEN l ELSE [ok |-> TRUE, cache |-> l.cache, value |-> Absent]

\* ValuationCache.get(deck_name, currency=currency, now=now)
cache_get(cache, file, deck_name, currency, now) ==
    With(cache_load(cache, file), LAMBDA l :
    IF ~l.ok THEN l
    ELSE IF l.cache.data.decks.t # "map" THEN [ok |-> FALSE, error |-> "AttributeError"]
    ELSE IF deck_name \notin DOMAIN l.cache.data.decks.entries
    THEN [ok |-> TRUE, cache |-> l.cache, value |-> Absent]
    ELSE
    With(l.cache.data.decks.entries[deck_name], LAMBDA entry :
    IF lower(entry.currency) # lower(currency)
    THEN [ok |-> TRUE, cache |-> l.cache, value |-> Absent]
    ELSE IF ~entry_is_current(entry.valued_at, now)
    THEN [ok |-> TRUE, cache |-> l.cache, value |-> Absent]
    ELSE [ok |-> TRUE, cache |-> l.cache,
          value |-> Present(DeckValuation(entry.currency, entry.total,
                                          entry.missing_prices))]))

CacheEntry(currency, total, missing_prices, valued_at) ==
    [currency |-> currency, total |-> total, missing_prices |-> missing_prices,
     valued_at |-> valued_at]

\* a store that starts a new decks mapping
cache_store_fresh(cache, file, deck_name, valuation, as_of) ==
    With(cache_load(cache, file), LAMBDA l :
    IF ~l.ok THEN l
    ELSE IF l.cache.data.decks.t # "map" THEN [ok |-> FALSE, error |-> "TypeError"]
    ELSE
    With(CacheEntry(valuation.currency, valuation.total, valuation.missing_prices,
                    isoformat_seconds(as_of)), LAMBDA entry :
    [ok |-> TRUE,
     cache |-> [data |-> JCache(JMap([n \in {deck_name} |->
                                        IF n = deck_name THEN entry
                                        ELSE l.cache.data.decks.entries[n]])),
                loaded |-> TRUE]]))

\* ValuationCache.store(deck_name, valuation, as_of=as_of)
cache_store(cache, file, deck_name, valuation, as_of) ==
    With(cache_load(cache, file), LAMBDA l :
    IF ~l.ok THEN l
    ELSE IF l.cache.data.decks.t # "map" THEN [ok |-> FALSE, error |-> "TypeError"]
    ELSE
    With(CacheEntry(valuation.currency, valuation.total, valuation.missing_prices,
                    isoformat_seconds(as_of)), LAMBDA entry :
    [ok |-> TRUE,
     cache |-> [data |-> JCache(JMap([n \in DOMAIN l.cache.data.decks.entries
                                          \cup {deck_name} |->
                                        IF n = deck_name THEN entry
                                        ELSE l.cache.data.decks.entries[n]])),
                loaded |-> TRUE]]))

\* a save that writes nothing
cache_save_noop(cache, file) == [ok |-> TRUE, cache |-> cache, file |-> file]

\* ValuationCache.save(): the file content afterwards
cache_save(cache, file) ==
    LET l == cache_load(cache, file)
    IN  IF ~l.ok THEN l ELSE [ok |-> TRUE, cache |-> l.cache, file |-> l.cache.data]

(***************************************************************************)
(* library.py: value_deck and value_all.  A call returns its outcome, the  *)
(* lookups it made, the cache file it leaves, and what it did per deck.    *)
(***************************************************************************)
Lookups(path, queries) == [i \in 1..Len(queries) |-> [path |-> path, query |-> queries[i]]]

Raised(error, file, lookups) ==
    [status |-> error, file |-> file, lookups |-> lookups]

\* DeckLibrary.value_deck(name_or_slug, currency=, resolver=, cache=, now=)
value_deck(dir, file, name_or_slug, currency, resolver, use_cache, now) ==
    With(read_deck(dir, name_or_slug), LAMBDA read :
    IF ~read.ok THEN Raised(read.error, file, <<>>)
    ELSE
    With(IF use_cache THEN cache_get(cache_new, file, read.deck.name, currency, now)
         ELSE [ok |-> TRUE, cache |-> cache_new, value |-> Absent], LAMBDA cached :
    IF ~cached.ok THEN Raised(cached.error, file, <<>>)
    ELSE IF cached.value.present
    THEN [status |-> "ok", file |-> file, lookups |-> <<>>,
          value |-> cached.value.valuation,
          decks |-> <<[path |-> read.path, name |-> read.deck.name, hit |-> TRUE]>>]
    ELSE
    With(load_decklist(dir[read.path]), LAMBDA loaded :
    IF ~loaded.ok THEN Raised("ValueError", file, <<>>)
    ELSE
    With(value_counts(resolver, loaded.counts, currency), LAMBDA valued :
    With(IF use_cache
         THEN cache_store(cached.cache, file, read.deck.name, valued.valuation, now)
         ELSE [ok |-> TRUE, cache |-> cached.cache], LAMBDA stored :
    IF ~stored.ok THEN Raised(stored.error, file, Lookups(read.path, valued.queries))
    ELSE [status |-> "ok",
          file |-> IF use_cache THEN cache_save(stored.cache, file).file ELSE file,
          lookups |-> Lookups(read.path, valued.queries),
          value |-> valued.valuation,
          decks |-> <<[path |-> read.path, name |-> read.deck.name, hit |-> FALSE]>>])))))

\* results[deck.name] = valuation, results being a list of [name, valuation]
ResultsPut(results, name, valuation) ==
    IF \E i \in 1..Len(results) : results[i].name = name
    THEN [i \in 1..Len(results) |->
            IF results[i].name = name THEN [name |-> name, valuation |-> valuation]
            ELSE results[i]]
    ELSE Append(results, [name |-> name, valuation |-> valuation])

ResultsGet(results, name) ==
    results[CHOOSE i \in 1..Len(results) : results[i].name = name].valuation

\* the state of value_all's loop: the cache and what has been collected
LoopState(cache, results, lookups, decks) ==
    [cache |-> cache, results |-> results, lookups |-> lookups, decks |-> decks]

\* the loop of value_all over deck_files(), from the i-th file on
RECURSIVE value_all_from(_, _, _, _, _, _, _, _, _)
value_all_from(dir, paths, i, state, file, currency, resolver, use_cache, now) ==
    With(state, LAMBDA st :
    IF i > Len(paths)
    THEN [status |-> "ok",
          file |-> IF use_cache THEN cache_save(st.cache, file)
                   ELSE [ok |-> TRUE, file |-> file],
          lookups |-> st.lookups, value |-> st.results, decks |-> st.decks]
    ELSE
    With(from_file(paths[i], dir[paths[i]]).deck, LAMBDA deck :
    With(IF use_cache THEN cache_get(st.cache, file, deck.name, currency, now)
         ELSE [ok |-> TRUE, cache |-> st.cache, value |-> Absent], LAMBDA cached :
    IF ~cached.ok THEN Raised(cached.error, [ok |-> TRUE, file |-> file], st.lookups)
    ELSE IF cached.value.present
    THEN value_all_from(dir, paths, i + 1,
                        LoopState(cached.cache,
                                  ResultsPut(st.results, deck.name, cached.value.valuation),
                                  st.lookups,
                                  Append(st.decks, [path |-> paths[i], name |-> deck.name,
                                                    hit |-> TRUE])),
                        file, currency, resolver, use_cache, now)
    ELSE
    With(load_decklist(dir[paths[i]]), LAMBDA loaded :
    IF ~loaded.ok THEN Raised("ValueError", [ok |-> TRUE, file |-> file], st.lookups)
    ELSE
    With(value_counts(resolver, loaded.counts, currency), LAMBDA valued :
    With(IF use_cache
         THEN cache_store(cached.cache, file, deck.name, valued.valuation, now)
         ELSE [ok |-> TRUE, cache |-> cached.cache], LAMBDA stored :
    IF ~stored.ok
    THEN Raised(stored.error, [ok |-> TRUE, file |-> file],
                st.lookups \o Lookups(paths[i], valued.queries))
    ELSE value_all_from(dir, paths, i + 1,
                        LoopState(stored.cache,
                                  ResultsPut(st.results, deck.name, valued.valuation),
                                  st.lookups \o Lookups(paths[i], valued.queries),
                                  Append(st.decks, [path |-> paths[i], name |-> deck.name,
                                                    hit |-> FALSE])),
                        file, currency, resolver, use_cache, now)))))))

\* DeckLibrary.value_all(currency=, resolver=, cache=, now=)
value_all(dir, file, currency, resolver, use_cache, now) ==
    With(deck_files(dir), LAMBDA paths :
    With(value_all_from(dir, paths, 1, LoopState(cache_new, <<>>, <<>>, <<>>), file,
                        currency, resolver, use_cache, now), LAMBDA r :
    IF r.status # "ok" THEN Raised(r.status, file, r.lookups)
    ELSE IF ~r.file.ok THEN Raised(r.file.error, file, r.lookups)
    ELSE [status |-> "ok", file |-> r.file.file, lookups |-> r.lookups,
          value |-> r.value, decks |-> r.decks]))

(***************************************************************************)
(* library.py: validate_decks.  Error lines and the log are text; a path   *)
(* is written as the file's name in the directory.                         *)
(***************************************************************************)
\* str(issue) for each f-string of CommanderRules.validate
issue_text(issue) ==
    CASE issue.kind = "format" ->
            <<"D", "e", "c", "k", " ", "f", "o", "r", "m", "a", "t", " ", "m", "u", "s", "t", " ", "b", "e", " ">> \o issue.expected
      [] issue.kind = "size" ->
            <<"D", "e", "c", "k", " ", "m", "u", "s", "t", " ", "c", "o", "n", "t", "a", "i", "n", " ", "e", "x", "a", "c", "t", "l", "y", " ">>
            \o ToDigits(issue.expected)
            \o <<" ", "c", "a", "r", "d", "s", " ", "(", "f", "o", "u", "n", "d", " ">>
            \o ToDigits(issue.found) \o <<")">>
      [] issue.kind = "banned" ->
            <<"C", "a", "r", "d", " ", "'">> \o issue.name
            \o <<"'", " ", "i", "s", " ", "b", "a", "n", "n", "e", "d", " ", "i", "n", " ">>
            \o issue.format
      [] issue.kind = "repeat" ->
            <<"C", "a", "r", "d", " ", "'">> \o issue.name
            \o <<"'", " ", "a", "p", "p", "e", "a", "r", "s", " ">> \o ToDigits(issue.count)
            \o <<" ", "t", "i", "m", "e", "s", ";", " ", "o", "n", "l", "y", " ", "b", "a", "s", "i", "c", "s", " ", "m", "a", "y", " ", "r", "e", "p", "e", "a", "t">>
      [] issue.kind = "too_many_commanders" ->
            <<"D", "e", "c", "k", " ", "l", "i", "s", "t", "s", " ">> \o ToDigits(issue.found)
            \o <<" ", "c", "o", "m", "m", "a", "n", "d", "e", "r", "s", ";", " ", "m", "a", "x", "i", "m", "u", "m", " ", "i", "s", " ">>
            \o ToDigits(issue.maximum)
      [] issue.kind = "commander_once" ->
            <<"C", "o", "m", "m", "a", "n", "d", "e", "r", " ", "m", "u", "s", "t", " ", "a", "p", "p", "e", "a", "r", " ", "e", "x", "a", "c", "t", "l", "y", " ", "o", "n", "c", "e", " ", "i", "n", " ", "t", "h", "e", " ", "d", "e", "c", "k", "l", "i", "s", "t">>
      [] issue.kind = "not_marked" ->
            <<"C", "o", "m", "m", "a", "n", "d", "e", "r", " ", "'">> \o issue.commander
            \o <<"'", " ", "n", "o", "t", " ", "m", "a", "r", "k", "e", "d", " ", "i", "n", " ", "t", "h", "e", " ", "D", "e", "c", "k", "l", "i", "s", "t", " ", "s", "e", "c", "t", "i", "o", "n">>
      [] issue.kind = "missing" ->
            <<"C", "o", "m", "m", "a", "n", "d", "e", "r", " ", "e", "n", "t", "r", "y", " ", "m", "i", "s", "s", "i", "n", "g", " ", "f", "r", "o", "m", " ", "d", "e", "c", "k", "l", "i", "s", "t">>

NameRequired == <<"D", "e", "c", "k", " ", "n", "a", "m", "e", " ", "i", "s", " ", "r", "e", "q", "u", "i", "r", "e", "d">>
CommanderRequired == <<"C", "o", "m", "m", "a", "n", "d", "e", "r", " ", "i", "s", " ", "r", "e", "q", "u", "i", "r", "e", "d">>
NoDecklistSection == <<"N", "o", " ", "'", "#", "#", " ", "D", "e", "c", "k", "l", "i", "s", "t", "'", " ", "s", "e", "c", "t", "i", "o", "n", " ", "f", "o", "u", "n", "d">>
AllDecksValid == <<"A", "l", "l", " ", "d", "e", "c", "k", "s", " ", "v", "a", "l", "i", "d", ".">>

\* f"{path}: {issue}" and f"{path}: {exc}"
error_line(path, text) == FileName(path) \o <<":", " ">> \o text

\* the body of validate_decks' loop for one file: the messages it appends
deck_errors(path, text, rules) ==
    With(from_file(path, text).deck, LAMBDA deck :
    IF ~Truthy(deck.name) THEN <<error_line(path, NameRequired)>>
    ELSE IF ~Truthy(deck.commander) THEN <<error_line(path, CommanderRequired)>>
    ELSE IF rules = NoRules THEN <<>>
    ELSE
    With(load_decklist(text), LAMBDA loaded :
    IF ~loaded.ok THEN <<error_line(path, NoDecklistSection)>>
    ELSE
    With(validate(rules, deck, loaded.counts, loaded.commanders), LAMBDA issues :
        [i \in 1..Len(issues) |-> error_line(path, issue_text(issues[i]))])))

RECURSIVE validate_from(_, _, _, _)
validate_from(dir, paths, i, rules) ==
    IF i > Len(paths) THEN <<>>
    ELSE deck_errors(paths[i], dir[paths[i]], rules) \o validate_from(dir, paths, i + 1, rules)

\* a log opened for appending: what the file held stays in front
validate_decks_appending(dir, log, use_log, rules) ==
    With(validate_from(dir, deck_files(dir), 1, rules), LAMBDA errors :
        [errors |-> errors,
         log |-> IF use_log
                 THEN (IF log = NoFile THEN <<>> ELSE log)
                      \o join(<<"\n">>, IF errors # <<>> THEN errors ELSE <<AllDecksValid>>)
                 ELSE log])

\* DeckLibrary.validate_decks(log_path=, rules=): the errors returned and
\* the log file the call leaves
validate_decks(dir, log, use_log, rules) ==
    With(validate_from(dir, deck_files(dir), 1, rules), LAMBDA errors :
        [errors |-> errors,
         log |-> IF use_log
                 THEN join(<<"\n">>, IF errors # <<>> THEN errors ELSE <<AllDecksValid>>)
                 ELSE log])

(***************************************************************************)
(* The codec on its own: a Deck built from display fields is serialized    *)
(* and read back, or a hand-written file is read.                          *)
(***************************************************************************)
CodecStem == <<"m", "y", "-", "d">>

FuzzAlphabet == {"a", "B", " ", ":", ",", "-", "\n"}
FuzzStrings == StringsUpTo(FuzzAlphabet, MaxStrLen)
ColorPool == StringsUpTo(FuzzAlphabet, 1)
ColorLists == UNION {[1..n -> ColorPool] : n \in 0..MaxColors}

FullDeck ==
    Deck(<<"L", "i">>, <<"C", ",", " ", "E">>, <<<<"W">>, <<"U">>>>, <<"t", " ", "c">>,
         <<"M", "o">>, <<"2", "4", "-", "0", "1">>, <<"2", "4", "-", "0", "2">>, <<"p", ":", "w">>)

BareDeck ==
    Deck(<<"L", "i">>, <<"E">>, <<>>, NoneVal, DefaultFormat, NoneVal, NoneVal, NoneVal)

BaseDecks == {FullDeck, BareDeck}

OptionalKeys == {"theme", "format", "created", "updated", "notes"}

FuzzDecks ==
    {[b EXCEPT ![k] = v] : b \in BaseDecks, k \in MetaKeys \ {"colors"}, v \in FuzzStrings}
    \cup {[b EXCEPT ![k] = NoneVal] : b \in BaseDecks, k \in OptionalKeys}
    \cup {[b EXCEPT !.colors = c] : b \in BaseDecks, c \in ColorLists}

RawLinePool ==
    {FRONT_MATTER_MARK,
     <<" ", "-", "-", "-", " ">>,
     <<"n", "a", "m", "e", ":", " ", "a">>,
     <<"c", "o", "m", "m", "a", "n", "d", "e", "r", ":", " ", "b">>,
     <<"c", "o", "m", "m", "a", "n", "d", "e", "r", " ", "b">>,
     <<"t", "h", "e", "m", "e", ":", " ", "x">>,
     <<>>}

RawTexts ==
    {join(<<"\n">>, ls) \o <<"\n">> : ls \in UNION {[1..n -> RawLinePool] : n \in 1..MaxRawLines}}

\* the inputs of the library calls
LibNames == {<<"A", " ", "b">>, <<"a", "-", "b">>, <<"C">>}
LibCommander == <<"K">>
LibCards ==
    {<<>>,
     <<"P">>,
     <<"2", " ", "S">>,
     <<"K", "\n", "P">>,
     <<"2", " ", "k", "\n", "S", "\n", "2", " ", "S">>,
     <<"1", ",", " ", "7", " ", "S">>}
LibResolver ==
    {[query |-> <<"K">>, name |-> <<"K">>, color_identity |-> <<<<"W">>>>, prices |-> NoPrices],
     [query |-> <<"P">>, name |-> <<"P">>, color_identity |-> <<>>, prices |-> NoPrices],
     [query |-> <<"7", " ", "S">>, name |-> <<"7", " ", "S">>, color_identity |-> <<>>,
      prices |-> NoPrices]}
LibRules == {NoRules, CommanderRules(DeckSize, DefaultFormat, TRUE, TRUE, 1, {})}

Stems == {slugify(n) : n \in LibNames}
EmptyDir == [s \in Stems |-> NoFile]

CodecIdle == crec = NoDeck /\ ctext = NoFile /\ cloaded = NoResult /\ cpc = "idle"
LibraryIdle == files = EmptyDir /\ before = EmptyDir /\ op = NoResult /\ ncalls = 0
ValuationIdle == cacheFile = JNoFile /\ calls = <<>> /\ vop = NoResult /\ nvalue = 0
ValidateIdle == logFile = NoFile /\ vd = NoResult /\ nvalidate = 0
RulesIdle == rtext = NoFile /\ rparse = NoResult /\ rcase = NoResult /\ rissues = NoResult
FunctionsIdle == fin = NoResult /\ fout = NoResult
InventoryIdle == invFile = NoFile /\ iop = NoResult /\ ninv = 0

InitCodec ==
    /\ \/ crec \in FuzzDecks /\ ctext = NoFile /\ cpc = "start"
       \/ crec = NoDeck /\ ctext \in RawTexts /\ cpc = "written"
    /\ cloaded = NoResult
    /\ LibraryIdle
    /\ ValuationIdle
    /\ ValidateIdle
    /\ RulesIdle
    /\ FunctionsIdle
    /\ InventoryIdle

\* path.write_text(deck.to_markdown())
Serialize ==
    /\ cpc = "start"
    /\ ctext' = to_markdown(crec)
    /\ cpc' = "written"
    /\ UNCHANGED <<crec, cloaded, libraryVars, valuationVars, validateVars, rulesVars, functionVars, inventoryVars>>

\* Deck.from_file(path)
Deserialize ==
    /\ cpc = "written"
    /\ cloaded' = from_file(CodecStem, ctext)
    /\ cpc' = "loaded"
    /\ UNCHANGED <<crec, ctext, libraryVars, valuationVars, validateVars, rulesVars, functionVars, inventoryVars>>

NextCodec == Serialize \/ Deserialize

SpecCodec == InitCodec /\ [][NextCodec]_vars

----
\* What a reader of the file sees, stated without the parser.
FileLines == splitlines(ctext)
HasOpeningMarker == FileLines # <<>> /\ strip(FileLines[1]) = FRONT_MATTER_MARK
ClosingMarkers == {i \in 2..Len(FileLines) : strip(FileLines[i]) = FRONT_MATTER_MARK}
BlockEnd == IF ClosingMarkers = {} THEN Len(FileLines) + 1 ELSE SetMin(ClosingMarkers)
IsKeyLine(line, k) ==
    \E j \in 1..Len(line) :
        /\ line[j] = ":"
        /\ \A i \in 1..(j - 1) : line[i] # ":"
        /\ strip(SubSeq(line, 1, j - 1)) = KeyText(k)
BlockHasKey(k) == \E i \in 2..(BlockEnd - 1) : IsKeyLine(FileLines[i], k)

\* C4: a file that opens with the metadata marker and whose metadata block has
\* no `commander` key fails to load (the original claim; the code loads it).
C4_MissingCommanderFails ==
    (cpc = "loaded" /\ HasOpeningMarker /\ ~BlockHasKey("commander")) => ~cloaded.ok

\* C5: a file whose first line is the opening marker and which has no later
\* closing marker line fails to load, also when name and commander lines are
\* present (the original claim; the code loads it).
C5_UnterminatedBlockFails ==
    (cpc = "loaded" /\ HasOpeningMarker /\ ClosingMarkers = {}
        /\ BlockHasKey("name") /\ BlockHasKey("commander")) => ~cloaded.ok

Plain(v) == v = strip(v) /\ "\n" \notin Range(v)
SetOrUnset(v) == v = NoneVal \/ (v # <<>> /\ Plain(v))

\* the records the round trip reproduces
RoundTrippable(d) ==
    /\ d.name # <<>> /\ Plain(d.name)
    /\ Plain(d.commander)
    /\ d.format # NoneVal /\ d.format # <<>> /\ Plain(d.format)
    /\ SetOrUnset(d.theme) /\ SetOrUnset(d.notes)
    /\ SetOrUnset(d.created) /\ SetOrUnset(d.updated)
    /\ \A i \in 1..Len(d.colors) :
          d.colors[i] # <<>> /\ Plain(d.colors[i]) /\ "," \notin Range(d.colors[i])

RoundTripHolds == cloaded.ok /\ \A k \in MetaKeys : cloaded.deck[k] = crec[k]

\* C6 (original): every record built from display fields is reproduced by
\* Deserialize(Serialize(r)), records with empty or unset optional fields included.
C6_RoundTripAny == (cpc = "loaded" /\ crec # NoDeck) => RoundTripHolds

\* C6 (amended): the round trip reproduces all eight fields when the name and
\* format are non-empty, every optional field is unset or non-empty, each
\* color is non-empty and comma-free, and no value has surrounding whitespace
\* or a line break.
C6_RoundTrip == (cpc = "loaded" /\ crec # NoDeck /\ RoundTrippable(crec)) => RoundTripHolds

C6_Witness ==
    /\ cpc = "loaded" /\ crec # NoDeck /\ RoundTrippable(crec)
    /\ crec.theme = NoneVal /\ crec.colors # <<>> /\ RoundTripHolds

(***************************************************************************)
(* The library directory under create_deck and import_deck calls.          *)
(***************************************************************************)
InitLibrary ==
    CodecIdle /\ LibraryIdle /\ ValuationIdle /\ ValidateIdle /\ RulesIdle /\ FunctionsIdle /\ InventoryIdle

CreateDeck ==
    /\ ncalls < MaxCalls
    /\ \E name \in LibNames, template \in {"none", "missing"} :
          LET r == create_deck(files, name, LibCommander, <<>>, DefaultFormat, template)
          IN  /\ files' = r.files
              /\ op' = [kind |-> "create", name |-> name, template |-> template,
                        result |-> r.result]
    /\ before' = files
    /\ ncalls' = ncalls + 1
    /\ UNCHANGED <<codecVars, valuationVars, validateVars, rulesVars, functionVars, inventoryVars>>

ImportDeck ==
    /\ ncalls < MaxCalls
    /\ \E name \in LibNames, cards \in LibCards, overwrite \in BOOLEAN, rules \in LibRules :
          LET r == import_deck(files, name, LibCommander, cards, <<>>, DefaultFormat,
                               overwrite, LibResolver, rules)
          IN  /\ files' = r.files
              /\ op' = [kind |-> "import", name |-> name, cards |-> cards,
                        overwrite |-> overwrite, rules |-> rules, deck |-> r.deck,
                        written |-> r.written, result |-> r.result]
    /\ before' = files
    /\ ncalls' = ncalls + 1
    /\ UNCHANGED <<codecVars, valuationVars, validateVars, rulesVars, functionVars, inventoryVars>>

NextLibrary == CreateDeck \/ ImportDeck

SpecLibrary == InitLibrary /\ [][NextLibrary]_vars

----
Called(kind) == op # NoResult /\ op.kind = kind
Target == slugify(op.name)
RulesRejected ==
    /\ Called("import") /\ op.rules # NoRules
    /\ op.result.status = "ValueError" /\ op.result.why = "violations"

WrittenViolations ==
    LET loaded == parse_decklist(op.written)
    IN  validate(op.rules, op.deck, loaded.counts, loaded.commanders)

NoOverwriteCall == Called("create") \/ (Called("import") /\ ~op.overwrite)

\* C3 (original): create_deck, and import_deck without overwrite, fail with a
\* file-exists error naming the path whenever a file is at the target path,
\* and leave that file unchanged.
C3_ExistsError ==
    (NoOverwriteCall /\ before[Target] # NoFile)
    => /\ op.result.status = "FileExistsError"
       /\ op.result.path = Target
       /\ files[Target] = before[Target]

\* C3 (amended): create_deck, and import_deck without overwrite whose card
\* source holds at least one row, fail with a file-exists error naming the
\* path whenever a file is at the target path; an import with no rows fails
\* with "No cards provided" instead; in every such call each existing deck
\* file keeps its content.
C3_NoOverwrite ==
    (NoOverwriteCall /\ before[Target] # NoFile)
    => /\ \A s \in Stems : before[s] # NoFile => files[s] = before[s]
       /\ IF Called("import") /\ parse_import_rows(op.cards) = <<>>
          THEN op.result.status = "ValueError"
               /\ op.result.why = "No cards provided to import"
          ELSE op.result.status = "FileExistsError" /\ op.result.path = Target

C3_Witness ==
    /\ Called("import") /\ ~op.overwrite /\ before[Target] # NoFile
    /\ op.result.status = "FileExistsError"
    /\ files[Target] = before[Target]

\* the name import_deck keeps for a query
ResolvedName(query) ==
    strip(IF resolve(LibResolver, query).found THEN resolve(LibResolver, query).name ELSE query)

ImportedEntries == parse_import_rows(op.cards)

RECURSIVE SumImported(_, _)
SumImported(name, i) ==
    IF i > Len(ImportedEntries) THEN 0
    ELSE (IF ResolvedName(ImportedEntries[i].name) = name THEN ImportedEntries[i].count ELSE 0)
         + SumImported(name, i + 1)

ImportedNames == {ResolvedName(ImportedEntries[i].name) : i \in 1..Len(ImportedEntries)}

MaxValueCalls == 1

Usd == <<"u", "s", "d">>
UsdUpper == <<"U", "S", "D">>
Gbp == <<"G", "B", "P">>
ValueCurrencies == {Usd, UsdUpper}

ValueResolver ==
    {[query |-> <<"K">>, name |-> <<"K">>, color_identity |-> <<>>,
      prices |-> (Usd :> <<"3", ".", "0", "0">>)],
     [query |-> <<"S">>, name |-> <<"S">>, color_identity |-> <<>>,
      prices |-> (UsdUpper :> <<"1", ".", "5", "0">>)],
     [query |-> <<"Q">>, name |-> <<"Q">>, color_identity |-> <<>>, prices |-> NoPrices]}

NameAB == <<"A", " ", "b">>
NameC == <<"C">>
ValueNames == {NameAB, NameC}

Imported(dir, name, cards) ==
    import_deck(dir, name, LibCommander, cards, <<>>, DefaultFormat, FALSE,
                LibResolver, NoRules).files

ValueDirs ==
    With(Imported(EmptyDir, NameAB, <<"2", " ", "S">>), LAMBDA one :
        {Imported(one, NameC, <<"P">>),
         [one EXCEPT ![slugify(NameC)] = one[slugify(NameAB)]],
         [one EXCEPT ![slugify(NameC)] = <<"-", "-", "-", "\n", "c", "o", "m", "m", "a", "n", "d", "e", "r", ":", " ", "K", "\n", "-", "-", "-", "\n">>]})

NowFebruary == DateTime(2024, 2, 15, 10, 0, 1, 500000)
NowMarch == DateTime(2024, 3, 1, 0, 0, 0, 0)
ValueNows == {NowFebruary, NowMarch}

ValuedAtPool ==
    {<<"2", "0", "2", "4", "-", "0", "2", "-", "0", "1", "T", "0", "0", ":", "0", "0", ":", "0", "0">>, <<"2", "0", "2", "3", "-", "0", "2", "-", "0", "1", "T", "0", "0", ":", "0", "0", ":", "0", "0">>, <<"2", "0", "2", "4", "-", "0", "1", "-", "3", "1", "T", "2", "3", ":", "5", "9", ":", "5", "9">>, <<"g", "a", "r", "b", "a", "g", "e">>}

FreshGbpEntry == CacheEntry(Gbp, 999, <<NameC>>, <<"2", "0", "2", "4", "-", "0", "2", "-", "0", "1">>)

EntryPool ==
    {CacheEntry(Usd, 999, <<NameC>>, t) : t \in ValuedAtPool} \cup {FreshGbpEntry}

OtherEntry == CacheEntry(Usd, 100, <<>>, <<"2", "0", "2", "4", "-", "0", "3", "-", "0", "1">>)

CacheMaps ==
    {NoEntries, (NameC :> OtherEntry)}
    \cup {(NameAB :> e) : e \in EntryPool}
    \cup {(NameAB :> FreshGbpEntry) @@ (NameC :> OtherEntry)}

CacheFiles ==
    {JNoFile, JInvalid, JArray, JCache(JMissing), JCache(JArray)}
    \cup {JCache(JMap(m)) : m \in CacheMaps}

StoredValuations == {DeckValuation(Usd, 450, <<<<"P">>>>)}

InitValuation ==
    /\ CodecIdle
    /\ files \in ValueDirs /\ before = files /\ op = NoResult /\ ncalls = 0
    /\ cacheFile \in CacheFiles
    /\ calls = <<>> /\ vop = NoResult /\ nvalue = 0
    /\ ValidateIdle
    /\ RulesIdle
    /\ FunctionsIdle
    /\ InventoryIdle

Outcome(r) == IF r.ok THEN "ok" ELSE r.error

\* ValuationCache(path).get(deck_name, currency=currency, now=now)
CacheGet ==
    /\ nvalue < MaxValueCalls
    /\ \E name \in ValueNames, currency \in ValueCurrencies, now \in ValueNows :
          \E r \in {cache_get(cache_new, cacheFile, name, currency, now)} :
              vop' = [kind |-> "get", name |-> name, currency |-> currency, now |-> now,
                      cache_before |-> cacheFile,
                      result |-> IF r.ok THEN [status |-> "ok", value |-> r.value]
                                 ELSE [status |-> r.error]]
    /\ calls' = <<>>
    /\ nvalue' = nvalue + 1
    /\ UNCHANGED <<cacheFile, codecVars, libraryVars, validateVars, rulesVars, functionVars, inventoryVars>>

\* cache = ValuationCache(path); cache.store(deck_name, valuation, as_of=now); cache.save()
CacheStoreSave ==
    /\ nvalue < MaxValueCalls
    /\ \E name \in ValueNames, valuation \in StoredValuations, now \in ValueNows :
          \E stored \in {cache_store(cache_new, cacheFile, name, valuation, now)} :
          \E saved \in {IF stored.ok THEN cache_save(stored.cache, cacheFile) ELSE stored} :
              /\ vop' = [kind |-> "store", name |-> name, valuation |-> valuation,
                         now |-> now, cache_before |-> cacheFile,
                         result |-> [status |-> Outcome(saved)]]
              /\ cacheFile' = IF saved.ok THEN saved.file ELSE cacheFile
    /\ calls' = <<>>
    /\ nvalue' = nvalue + 1
    /\ UNCHANGED <<codecVars, libraryVars, validateVars, rulesVars, functionVars, inventoryVars>>

\* library.value_deck(name, currency=, resolver=, cache=ValuationCache(path) or None, now=)
ValueDeck ==
    /\ nvalue < MaxValueCalls
    /\ \E name \in ValueNames, currency \in ValueCurrencies, now \in ValueNows,
          use_cache \in BOOLEAN :
          \* without a cache the time of the call plays no part
          /\ use_cache \/ now = NowFebruary
          /\ \E r \in {value_deck(files, cacheFile, name, currency, ValueResolver,
                                  use_cache, now)} :
                 /\ vop' = [kind |-> "value_deck", name |-> name, currency |-> currency,
                            now |-> now, use_cache |-> use_cache,
                            cache_before |-> cacheFile, result |-> r]
                 /\ cacheFile' = r.file
                 /\ calls' = r.lookups
    /\ nvalue' = nvalue + 1
    /\ UNCHANGED <<codecVars, libraryVars, validateVars, rulesVars, functionVars, inventoryVars>>

\* library.value_all(currency=, resolver=, cache=ValuationCache(path) or None, now=)
ValueAll ==
    /\ nvalue < MaxValueCalls
    /\ \E currency \in ValueCurrencies, now \in ValueNows, use_cache \in BOOLEAN :
          \* without a cache the time of the call plays no part
          /\ use_cache \/ now = NowFebruary
          /\ \E r \in {value_all(files, cacheFile, currency, ValueResolver, use_cache, now)} :
                 /\ vop' = [kind |-> "value_all", currency |-> currency, now |-> now,
                            use_cache |-> use_cache, cache_before |-> cacheFile,
                            result |-> r]
                 /\ cacheFile' = r.file
                 /\ calls' = r.lookups
    /\ nvalue' = nvalue + 1
    /\ UNCHANGED <<codecVars, libraryVars, validateVars, rulesVars, functionVars, inventoryVars>>

NextValuation == CacheGet \/ CacheStoreSave \/ ValueDeck \/ ValueAll

SpecValuation == InitValuation /\ [][NextValuation]_vars

(***************************************************************************)
(* What the cache file holds, read off the file and not through the cache. *)
(***************************************************************************)
ValueCalled(kind) == vop # NoResult /\ vop.kind = kind

ValueCommand == ValueCalled("value_deck") \/ ValueCalled("value_all")

IsDeckMapping(file) == file.t = "object" /\ file.decks.t = "map"

EntriesOf(file) == IF IsDeckMapping(file) THEN file.decks.entries ELSE NoEntries

\* the year and month a timestamp text names, when it is a timestamp
IsTimestamp(text) ==
    /\ Len(text) \in {10, 19}
    /\ \A i \in {1, 2, 3, 4, 6, 7, 9, 10} : isdigit(text[i])
    /\ text[5] = "-" /\ text[8] = "-"

YearOf(text) == ParseInt(SubSeq(text, 1, 4))
MonthOf(text) == ParseInt(SubSeq(text, 6, 7))

FreshEntry(file, name, currency, now) ==
    /\ name \in DOMAIN EntriesOf(file)
    /\ lower(EntriesOf(file)[name].currency) = lower(currency)
    /\ IsTimestamp(EntriesOf(file)[name].valued_at)
    /\ YearOf(EntriesOf(file)[name].valued_at) = now.year
    /\ MonthOf(EntriesOf(file)[name].valued_at) = now.month

EntryValuation(file, name) ==
    DeckValuation(EntriesOf(file)[name].currency, EntriesOf(file)[name].total,
                  EntriesOf(file)[name].missing_prices)

\* a cache file the cache can read: none, one that is not JSON, an object
\* without decks, or an object whose decks value is a mapping
Usable(file) ==
    file = JNoFile \/ file = JInvalid \/ file = JCache(JMissing) \/ IsDeckMapping(file)

\* C7: Get returns a valuation exactly when the cache holds an entry for the
\* deck name whose currency equals the requested one ignoring letter case
\* and whose valued_at lies in the year and month of now; the valuation is
\* the entry's; otherwise Get reports absent.
C7_GetSemantics ==
    (ValueCalled("get") /\ Usable(vop.cache_before)) =>
        /\ vop.result.status = "ok"
        /\ vop.result.value.present
              <=> FreshEntry(vop.cache_before, vop.name, vop.currency, vop.now)
        /\ vop.result.value.present
              => vop.result.value.valuation = EntryValuation(vop.cache_before, vop.name)

C7_Witness ==
    /\ ValueCalled("get")
    /\ vop.result.status = "ok"
    /\ vop.result.value.present
    /\ vop.result.value.valuation.currency # vop.currency

\* the valuation a value command returned for a deck name
Returned(name) ==
    IF vop.kind = "value_deck" THEN vop.result.value
    ELSE ResultsGet(vop.result.value, name)

FileDeck(path) == from_file(path, files[path]).deck

\* the deck files a value command was asked about
Asked ==
    IF vop.kind = "value_all" THEN {p \in DOMAIN files : files[p] # NoFile}
    ELSE {p \in DOMAIN files : files[p] # NoFile /\ p = slugify(vop.name)}

LookupsFor(path) == {i \in 1..Len(calls) : calls[i].path = path}

\* C8: a value command given a cache that holds a fresh entry for a deck
\* makes no Card Resolver lookup for that deck's cards, and what it returns
\* for the deck is the cached valuation; value_deck returns it in any case.
C8_FreshEntryShortCircuits ==
    (ValueCommand /\ vop.use_cache) =>
        \A p \in Asked :
            FreshEntry(vop.cache_before, FileDeck(p).name, vop.currency, vop.now) =>
                /\ LookupsFor(p) = {}
                /\ vop.kind = "value_deck" => vop.result.status = "ok"
                /\ vop.result.status = "ok" =>
                      Returned(FileDeck(p).name)
                          = EntryValuation(vop.cache_before, FileDeck(p).name)

C8_Witness ==
    /\ ValueCalled("value_all")
    /\ vop.use_cache
    /\ vop.result.status = "ok"
    /\ \E p \in Asked :
          FreshEntry(vop.cache_before, FileDeck(p).name, vop.currency, vop.now)
    /\ calls # <<>>

Misses ==
    {i \in 1..Len(vop.result.decks) : ~vop.result.decks[i].hit}

HasDecklist(text) == load_decklist(text).ok

\* C9: a value command that finds no fresh entry for a deck values the
\* deck's decklist, stores the result under the deck's name at now, and
\* saves: Get on a new cache instance over the file it leaves, with the same
\* currency and now, returns the total and missing names it returned.
C9_MissStoresAndSaves ==
    (ValueCommand /\ vop.use_cache) =>
        /\ (/\ vop.kind = "value_deck"
            /\ Usable(vop.cache_before)
            /\ Asked # {}
            /\ \A p \in Asked : HasDecklist(files[p]))
              => vop.result.status = "ok"
        /\ vop.result.status = "ok" =>
              \A i \in Misses :
                  LET d == vop.result.decks[i]
                      got == cache_get(cache_new, cacheFile, d.name, vop.currency, vop.now)
                      valued == value_counts(ValueResolver,
                                             load_decklist(files[d.path]).counts,
                                             vop.currency).valuation
                  IN  /\ Returned(d.name) = valued
                      /\ IsDeckMapping(cacheFile)
                      /\ d.name \in DOMAIN EntriesOf(cacheFile)
                      /\ fromisoformat(EntriesOf(cacheFile)[d.name].valued_at).ok
                      /\ fromisoformat(EntriesOf(cacheFile)[d.name].valued_at).value
                            = [vop.now EXCEPT !.microsecond = 0]
                      /\ got.ok
                      /\ got.value.present
                      /\ got.value.valuation.total = Returned(d.name).total
                      /\ got.value.valuation.missing_prices
                            = Returned(d.name).missing_prices

C9_Witness ==
    /\ ValueCommand
    /\ vop.use_cache
    /\ vop.result.status = "ok"
    /\ Misses # {}
    /\ vop.cache_before # cacheFile
    /\ \E i \in Misses : Returned(vop.result.decks[i].name).total > 0

\* a store on a cache file that holds entries of other decks
StoredOverOthers ==
    /\ vop # NoResult /\ vop.kind = "store"
    /\ vop.cache_before.t = "object" /\ vop.cache_before.decks.t = "map"
    /\ DOMAIN vop.cache_before.decks.entries \ {vop.name} # {}

\* C30: store followed by save changes the named deck's entry only: every
\* other entry of the cache file keeps its currency, total, missing list
\* and valued_at, and the stored entry's valued_at is as_of cut to whole
\* seconds.
C30_StoreTouchesOneEntry ==
    StoredOverOthers =>
        /\ vop.result.status = "ok"
        /\ cacheFile.t = "object" /\ cacheFile.decks.t = "map"
        /\ DOMAIN cacheFile.decks.entries
              = DOMAIN vop.cache_before.decks.entries \cup {vop.name}
        /\ \A n \in DOMAIN vop.cache_before.decks.entries \ {vop.name} :
              cacheFile.decks.entries[n] = vop.cache_before.decks.entries[n]
        /\ cacheFile.decks.entries[vop.name].currency = vop.valuation.currency
        /\ cacheFile.decks.entries[vop.name].total = vop.valuation.total
        /\ cacheFile.decks.entries[vop.name].missing_prices = vop.valuation.missing_prices
        /\ fromisoformat(cacheFile.decks.entries[vop.name].valued_at)
              = [ok |-> TRUE, value |-> [vop.now EXCEPT !.microsecond = 0]]

C30_Witness ==
    /\ StoredOverOthers
    /\ vop.name \in DOMAIN vop.cache_before.decks.entries
    /\ vop.now.microsecond # 0
    /\ cacheFile.decks.entries[vop.name] # vop.cache_before.decks.entries[vop.name]
    /\ \E n \in DOMAIN cacheFile.decks.entries : n # vop.name

\* the three malformed kinds: not JSON, JSON that is not an object, and an
\* object whose decks value is not a mapping
Malformed(file) == file = JInvalid \/ file = JArray \/ file = JCache(JArray)

\* C10: over a malformed cache file no cache operation raises: Get reports
\* absent, and Store followed by Save leaves a file holding the stored entry.
C10_MalformedIsEmpty ==
    /\ (ValueCalled("get") /\ Malformed(vop.cache_before)) =>
          /\ vop.result.status = "ok"
          /\ ~vop.result.value.present
    /\ (ValueCalled("store") /\ Malformed(vop.cache_before)) =>
          /\ vop.result.status = "ok"
          /\ DOMAIN EntriesOf(cacheFile) = {vop.name}

\* the one malformed kind the cache does treat as empty: a file that is not JSON
C10_InvalidJsonIsEmpty ==
    /\ (ValueCalled("get") /\ vop.cache_before = JInvalid) =>
          /\ vop.result.status = "ok"
          /\ ~vop.result.value.present
    /\ (ValueCalled("store") /\ vop.cache_before = JInvalid) =>
          /\ vop.result.status = "ok"
          /\ DOMAIN EntriesOf(cacheFile) = {vop.name}

\* the deck files of the directory whose text holds a Decklist section
Parseable == {p \in Asked : HasDecklist(files[p])}

ReturnedNames == {vop.result.value[i].name : i \in 1..Len(vop.result.value)}

\* C11: when a deck file of the directory has no Decklist section, value_all
\* still returns: its result holds a valuation for every deck file that can
\* be parsed, and with a cache the file it leaves holds an entry for each.
C11_PartialResults ==
    (/\ ValueCalled("value_all")
     /\ Usable(vop.cache_before)
     /\ Parseable # {}
     /\ Asked \ Parseable # {}) =>
        /\ vop.result.status = "ok"
        /\ \A p \in Parseable : FileDeck(p).name \in ReturnedNames
        /\ vop.use_cache =>
              \A p \in Parseable : FileDeck(p).name \in DOMAIN EntriesOf(cacheFile)

(***************************************************************************)
(* validate_decks over a directory of deck files written by hand, some of  *)
(* them broken, with a log file that may hold the text of an earlier run.  *)
(***************************************************************************)
MaxValidateCalls == 2

GoodFile ==
    <<"-", "-", "-", "\n", "n", "a", "m", "e", ":", " ", "A", " ", "b", "\n", "c", "o", "m", "m", "a", "n", "d", "e", "r", ":", " ", "K", "\n", "-", "-", "-", "\n", "#", "#", " ", "D", "e", "c", "k", "l", "i", "s", "t", "\n", "-", " ", "[", "C", "o", "m", "m", "a", "n", "d", "e", "r", "]", " ", "K", "\n", "-", " ", "S", "\n">>
NoCommanderFile ==
    <<"-", "-", "-", "\n", "n", "a", "m", "e", ":", " ", "B", "a", "d", " ", "D", "e", "c", "k", "\n", "-", "-", "-", "\n">>
EmptyCommanderFile ==
    <<"-", "-", "-", "\n", "c", "o", "m", "m", "a", "n", "d", "e", "r", ":", "\n", "-", "-", "-", "\n">>
NoDecklistFile ==
    <<"-", "-", "-", "\n", "c", "o", "m", "m", "a", "n", "d", "e", "r", ":", " ", "K", "\n", "-", "-", "-", "\n">>
ViolatingFile ==
    <<"-", "-", "-", "\n", "c", "o", "m", "m", "a", "n", "d", "e", "r", ":", " ", "K", "\n", "-", "-", "-", "\n", "#", "#", " ", "D", "e", "c", "k", "l", "i", "s", "t", "\n", "-", " ", "[", "C", "o", "m", "m", "a", "n", "d", "e", "r", "]", " ", "K", "\n", "-", " ", "2", " ", "S", "\n">>
OldLog == <<"o", "l", "d", " ", "l", "o", "g", "s">>

DeckFilePool ==
    {NoFile, <<>>, GoodFile, NoCommanderFile, EmptyCommanderFile, NoDecklistFile, ViolatingFile}

ValidateDirs == [Stems -> DeckFilePool]

ValidateRules == {NoRules, CommanderRules(DeckSize, DefaultFormat, TRUE, TRUE, 1, {})}

InitValidate ==
    /\ CodecIdle
    /\ files \in ValidateDirs /\ before = files /\ op = NoResult /\ ncalls = 0
    /\ ValuationIdle
    /\ logFile \in {NoFile, OldLog} /\ vd = NoResult /\ nvalidate = 0
    /\ RulesIdle
    /\ FunctionsIdle
    /\ InventoryIdle

\* library.validate_decks(log_path=path or None, rules=rules or None)
ValidateDecks ==
    /\ nvalidate < MaxValidateCalls
    /\ \E rules \in ValidateRules, use_log \in BOOLEAN :
          \E r \in {validate_decks(files, logFile, use_log, rules)} :
              /\ vd' = [rules |-> rules, use_log |-> use_log, log_before |-> logFile,
                        errors |-> r.errors]
              /\ logFile' = r.log
    /\ nvalidate' = nvalidate + 1
    /\ UNCHANGED <<codecVars, libraryVars, valuationVars, rulesVars, functionVars, inventoryVars>>

NextValidate == ValidateDecks

SpecValidate == InitValidate /\ [][NextValidate]_vars

\* the deck files of the directory
DeckPaths == {p \in DOMAIN files : files[p] # NoFile}

\* a metadata block that declares no commander: no `commander` key between
\* the opening marker and the closing one
DeclaresNoCommander(text) ==
    LET lines == splitlines(text)
        closing == {i \in 2..Len(lines) : strip(lines[i]) = FRONT_MATTER_MARK}
        last == IF closing = {} THEN Len(lines) ELSE SetMin(closing) - 1
    IN  /\ lines # <<>>
        /\ strip(lines[1]) = FRONT_MATTER_MARK
        /\ ~\E i \in 2..last : IsKeyLine(lines[i], "commander")

\* a record that fails to load or parse: no commander declared, an empty
\* commander or, when rules are given, no Decklist section
LoadFails(p) ==
    \/ DeclaresNoCommander(files[p])
    \/ ~Truthy(FileDeck(p).commander)
    \/ vd.rules # NoRules /\ ~HasDecklist(files[p])

LinesNaming(p) == SelectSeq(vd.errors, LAMBDA line : startswith(line, FileName(p) \o <<":", " ">>))

\* the violations of a record that loads, as error lines
ViolationLines(p) ==
    IF vd.rules = NoRules THEN <<>>
    ELSE LET loaded == load_decklist(files[p])
             issues == validate(vd.rules, FileDeck(p), loaded.counts, loaded.commanders)
         IN  [i \in 1..Len(issues) |-> error_line(p, issue_text(issues[i]))]

\* C12: validate_decks records an error line naming each deck file that
\* fails to load or parse, a metadata block without `commander` included,
\* validates every other file, and returns an empty list exactly when every
\* record loaded and none produced a violation.
C12_EveryFileValidated ==
    vd # NoResult =>
        /\ \A p \in DeckPaths : LoadFails(p) => LinesNaming(p) # <<>>
        /\ \A p \in DeckPaths : ~LoadFails(p) => LinesNaming(p) = ViolationLines(p)
        /\ vd.errors = <<>>
              <=> \A p \in DeckPaths : ~LoadFails(p) /\ ViolationLines(p) = <<>>

\* C13: after validate_decks runs with a log path the log file holds the
\* returned error lines, one per line and nothing else, or the single line
\* `All decks valid.` when none was returned, whatever it held before.
C13_LogOverwritten ==
    (vd # NoResult /\ vd.use_log) =>
        /\ logFile # NoFile
        /\ splitlines(logFile) = IF vd.errors = <<>> THEN <<AllDecksValid>> ELSE vd.errors

C13_Witness ==
    /\ vd # NoResult /\ vd.use_log
    /\ nvalidate = MaxValidateCalls
    /\ vd.log_before # NoFile
    /\ vd.log_before # OldLog
    /\ vd.log_before # logFile
    /\ Len(vd.errors) > 1

(***************************************************************************)
(* The decklist parser and the rule engine on their own: parse_decklist    *)
(* applied to Markdown texts built from a pool of lines, and validate      *)
(* applied to rule sets, decks, counts maps and commander sets.            *)
(***************************************************************************)
MaxDeckLines == 3
MaxEntries == 2
MaxCount == 2
MaxCommanderLimit == 2

DeckLinePool ==
    {<<"#", "#", " ", "D", "e", "c", "k", "l", "i", "s", "t">>,
     <<" ", "#", "#", " ", "D", "E", "C", "K", "L", "I", "S", "T", " ">>,
     <<"#", " ", "N">>,
     <<"-", " ", "[", "C", "o", "m", "m", "a", "n", "d", "e", "r", "]", " ", "K">>,
     <<"-", "[", "c", "o", "m", "m", "a", "n", "d", "e", "r", "]", " ", "2", " ", "K">>,
     <<"-", " ", "2", "x", " ", "S">>,
     <<"-", " ", "S">>,
     <<"-", " ", "2", "S">>,
     <<"-", " ", "0", " ", "S">>,
     <<"S">>,
     <<"-">>,
     <<>>}

DeckTexts == {join(<<"\n">>, ls) : ls \in UNION {[1..n -> DeckLinePool] : n \in 0..MaxDeckLines}}

Island == <<"I", "s", "l", "a", "n", "d">>

CardNames == {<<"K">>, <<"k">>, <<"S">>, Island}

CountEntries == {[name |-> n, count |-> c] : n \in CardNames, c \in 1..MaxCount}

\* counts maps: up to MaxEntries entries with distinct names, in any order
CountMaps ==
    {cs \in UNION {[1..n -> CountEntries] : n \in 0..MaxEntries} :
        \A i, j \in 1..Len(cs) : i # j => cs[i].name # cs[j].name}

CommanderSets == {s \in SUBSET {<<"K">>, <<"k">>, <<"S">>} : Cardinality(s) <= 2}

BannedSets == {{}, {<<"s">>, <<"I", "S", "L", "A", "N", "D">>}}

RuleSets ==
    {CommanderRules(DeckSize, DefaultFormat, dup, tag, limit, banned) :
        dup \in BOOLEAN, tag \in BOOLEAN, limit \in -1..MaxCommanderLimit,
        banned \in BannedSets}

DefaultRules == CommanderRules(DeckSize, DefaultFormat, TRUE, TRUE, 1, {})

RuleDecks ==
    {Deck(<<"N">>, <<"K">>, <<>>, NoneVal, f, NoneVal, NoneVal, NoneVal) :
        f \in {DefaultFormat, <<"c", "o", "m", "m", "a", "n", "d", "e", "r">>, <<"B", "r", "a", "w", "l">>, <<>>}}

Issues(issues) == [issues |-> issues]

InitRules ==
    /\ CodecIdle /\ LibraryIdle /\ ValuationIdle /\ ValidateIdle
    /\ FunctionsIdle /\ InventoryIdle
    /\ rtext \in DeckTexts \cup {NoFile}
    /\ rparse = NoResult /\ rcase = NoResult /\ rissues = NoResult

\* parse_decklist(markdown)
ParseDecklist ==
    /\ rtext # NoFile
    /\ rparse = NoResult
    /\ rparse' = parse_decklist(rtext)
    /\ UNCHANGED <<rtext, rcase, rissues, codecVars, libraryVars, valuationVars, validateVars, functionVars, inventoryVars>>

\* rules.validate(deck, card_counts, commander_entries) on given arguments
ValidateCounts ==
    /\ rtext = NoFile
    /\ rissues = NoResult
    /\ \E rules \in RuleSets, deck \in RuleDecks, counts \in CountMaps,
          commanders \in CommanderSets :
          \* the format check reads nothing but the two format names
          /\ deck.format = DefaultFormat \/ rules = DefaultRules
          /\ rcase' = [rules |-> rules, deck |-> deck, counts |-> counts,
                       commanders |-> commanders]
          /\ rissues' = Issues(validate(rules, deck, counts, commanders))
    /\ UNCHANGED <<rtext, rparse, codecVars, libraryVars, valuationVars, validateVars, functionVars, inventoryVars>>

\* rules.validate(deck, *parse_decklist(markdown)) with the default rule set
ValidateParsed ==
    /\ rparse # NoResult
    /\ rparse.ok
    /\ rissues = NoResult
    /\ \E rules \in {DefaultRules},
          deck \in {Deck(<<"N">>, <<"K">>, <<>>, NoneVal, DefaultFormat, NoneVal, NoneVal, NoneVal)} :
          /\ rcase' = [rules |-> rules, deck |-> deck, counts |-> rparse.counts,
                       commanders |-> rparse.commanders]
          /\ rissues' = Issues(validate(rules, deck, rparse.counts, rparse.commanders))
    /\ UNCHANGED <<rtext, rparse, codecVars, libraryVars, valuationVars, validateVars, functionVars, inventoryVars>>

NextRules == ParseDecklist \/ ValidateCounts \/ ValidateParsed

SpecRules == InitRules /\ [][NextRules]_vars

(***************************************************************************)
(* What validate returned, read off the violations.                        *)
(***************************************************************************)
Validated == rissues # NoResult

IssuesOfKind(kind) == {i \in 1..Len(rissues.issues) : rissues.issues[i].kind = kind}

\* the entries of the counts map whose name is the declared commander's,
\* letter case aside
CommanderEntries ==
    {i \in 1..Len(rcase.counts) : lower(rcase.counts[i].name) = lower(rcase.deck.commander)}

\* C14: when validate returns no violation the counts map holds an entry
\* named as the declared commander, letter case aside, and under a rule set
\* that requires the tag such an entry is commander-tagged with count 1.
C14_ValidHasCommander ==
    (Validated /\ rissues.issues = <<>>) =>
        /\ CommanderEntries # {}
        /\ rcase.rules.require_commander_tag =>
              \E i \in CommanderEntries :
                  /\ rcase.counts[i].name \in rcase.commanders
                  /\ rcase.counts[i].count = 1

C14_Witness ==
    /\ Validated /\ rissues.issues = <<>>
    /\ rcase.rules.require_commander_tag
    /\ \E i \in CommanderEntries : rcase.counts[i].name # rcase.deck.commander

\* the tagged names that are the declared commander's, letter case aside
MatchingTags == {n \in rcase.commanders : lower(n) = lower(rcase.deck.commander)}

\* C29: one validate pass reports a missing commander at most once: when
\* tagged names exist and none is the declared commander's, the violation
\* is the 'not marked' one and the generic 'Commander entry missing' is not
\* reported, and the generic one is never reported more than once.
C29_OneMissingCommander ==
    Validated =>
        /\ Cardinality(IssuesOfKind("missing")) + Cardinality(IssuesOfKind("not_marked")) <= 1
        /\ (rcase.commanders # {} /\ MatchingTags = {}) =>
              /\ Cardinality(IssuesOfKind("not_marked")) = 1
              /\ IssuesOfKind("missing") = {}

C29_Witness ==
    /\ Validated
    /\ rcase.commanders # {} /\ MatchingTags = {}
    /\ Cardinality(IssuesOfKind("not_marked")) = 1
    /\ IssuesOfKind("missing") = {}
    /\ Len(rissues.issues) >= 2

\* the violations whose text holds the card's name in quotes
IssuesNaming(name) ==
    {i \in 1..Len(rissues.issues) :
        \/ /\ rissues.issues[i].kind \in {"banned", "repeat"}
           /\ rissues.issues[i].name = name
        \/ /\ rissues.issues[i].kind = "not_marked"
           /\ rissues.issues[i].commander = name}

BannedEntries ==
    {i \in 1..Len(rcase.counts) :
        lower(rcase.counts[i].name) \in {lower(b) : b \in rcase.rules.banned_cards}}

MayRepeat(name) ==
    /\ rcase.rules.allow_duplicate_basics
    /\ lower(name) \in {lower(b) : b \in DefaultBasicLands}

\* C15 as stated: a card whose name case-folds to a banned name is named by
\* exactly one violation of the result, whatever its count.
C15_OneViolationNamesBanned ==
    Validated =>
        \A i \in BannedEntries : Cardinality(IssuesNaming(rcase.counts[i].name)) = 1

\* C15: a card whose name case-folds to a banned name gets exactly one
\* `is banned` violation naming it, whatever its count; a count above 1 adds
\* one repeat violation naming it unless it is a basic land free to repeat.
C15_OneBannedViolation ==
    Validated =>
        \A i \in BannedEntries :
            LET name == rcase.counts[i].name
                naming == IssuesNaming(name)
                banned == {j \in naming : rissues.issues[j].kind = "banned"}
                repeat == {j \in naming : rissues.issues[j].kind = "repeat"}
            IN  /\ Cardinality(banned) = 1
                /\ \A j \in banned : rissues.issues[j].format = rcase.rules.expected_format
                /\ Cardinality(repeat)
                      = IF rcase.counts[i].count > 1 /\ ~MayRepeat(name) THEN 1 ELSE 0

C15_Witness ==
    /\ Validated
    /\ \E i \in BannedEntries :
          /\ rcase.counts[i].count > 1
          /\ rcase.counts[i].name \notin rcase.rules.banned_cards
          /\ Cardinality(IssuesNaming(rcase.counts[i].name)) = 2

\* C16: validate reports a format violation exactly when the deck's format
\* differs from the expected format, letter case aside, the empty format
\* included.
C16_FormatMismatch ==
    Validated =>
        (IssuesOfKind("format") # {}
            <=> lower(rcase.deck.format) # lower(rcase.rules.expected_format))

\* C17: a card gets a repeat violation exactly when its count is above 1 and
\* it is not a basic land under a rule set that lets basics repeat.
C17_RepeatViolation ==
    Validated =>
        \A i \in 1..Len(rcase.counts) :
            LET name == rcase.counts[i].name
                repeat == {j \in IssuesOfKind("repeat") : rissues.issues[j].name = name}
            IN  /\ repeat # {} <=> (rcase.counts[i].count > 1 /\ ~MayRepeat(name))
                /\ \A j \in repeat : rissues.issues[j].count = rcase.counts[i].count

C17_Witness ==
    /\ Validated
    /\ ~rcase.rules.allow_duplicate_basics
    /\ \E j \in IssuesOfKind("repeat") : rissues.issues[j].name = Island

\* C18 as stated: a `maximum is N` violation exactly when the number of
\* commander-tagged names exceeds N.
C18_LimitExceeded ==
    Validated =>
        (IssuesOfKind("too_many_commanders") # {}
            <=> Cardinality(rcase.commanders) > rcase.rules.max_commander_entries)

\* C18: a `maximum is N` violation exactly when some name is commander-tagged
\* and the number of tagged names exceeds N; it names both numbers.
C18_LimitExceededWhenTagged ==
    Validated =>
        /\ IssuesOfKind("too_many_commanders") # {}
              <=> /\ rcase.commanders # {}
                  /\ Cardinality(rcase.commanders) > rcase.rules.max_commander_entries
        /\ \A j \in IssuesOfKind("too_many_commanders") :
              /\ rissues.issues[j].found = Cardinality(rcase.commanders)
              /\ rissues.issues[j].maximum = rcase.rules.max_commander_entries

C18_Witness ==
    /\ Validated
    /\ Cardinality(rcase.commanders) = 2
    /\ rcase.rules.max_commander_entries = 1
    /\ IssuesOfKind("too_many_commanders") # {}

(***************************************************************************)
(* The Decklist section of the text parsed, read off its lines.            *)
(***************************************************************************)
Parsed == rparse # NoResult

ParsedLines == splitlines(rtext)

HeadingLines ==
    {i \in 1..Len(ParsedLines) : lower(strip(ParsedLines[i])) = DecklistHeading}

SectionStart == SetMin(HeadingLines) + 1

SectionStops ==
    {i \in SectionStart..Len(ParsedLines) : startswith(strip(ParsedLines[i]), <<"#">>)}

SectionEnd == IF SectionStops = {} THEN Len(ParsedLines) ELSE SetMin(SectionStops) - 1

IsBullet(i) == startswith(strip(ParsedLines[i]), <<"-">>)

SectionBullets == {i \in SectionStart..SectionEnd : IsBullet(i)}

\* a bullet without its dashes, and without the tag when it has one
BulletText(i) == strip(lstrip_dashes(strip(ParsedLines[i])))

IsTagged(i) == startswith(lower(BulletText(i)), CommanderTag)

BulletRest(i) ==
    IF IsTagged(i)
    THEN strip(SubSeq(BulletText(i), Len(CommanderTag) + 1, Len(BulletText(i))))
    ELSE BulletText(i)

\* the ways to read a text as digits, an optional x, whitespace and a name:
\* d is the last digit and s the first character of the name
CountSplits(rest) ==
    {ds \in (1..Len(rest)) \X (1..Len(rest)) :
        /\ \A i \in 1..ds[1] : isdigit(rest[i])
        /\ ~isspace(rest[ds[2]])
        /\ \E w \in {ds[1] + 1, ds[1] + 2} :
              /\ w = ds[1] + 2 => rest[ds[1] + 1] = "x"
              /\ w < ds[2]
              /\ \A i \in w..(ds[2] - 1) : isspace(rest[i])}

BulletCount(i) ==
    IF CountSplits(BulletRest(i)) = {} THEN 1
    ELSE LET ds == CHOOSE x \in CountSplits(BulletRest(i)) : TRUE
         IN  ParseInt(SubSeq(BulletRest(i), 1, ds[1]))

BulletName(i) ==
    IF CountSplits(BulletRest(i)) = {} THEN BulletRest(i)
    ELSE LET ds == CHOOSE x \in CountSplits(BulletRest(i)) : TRUE
         IN  SubSeq(BulletRest(i), ds[2], Len(BulletRest(i)))

RECURSIVE SumBullets(_)
SumBullets(S) ==
    IF S = {} THEN 0 ELSE BulletCount(SetMin(S)) + SumBullets(S \ {SetMin(S)})

BulletsNamed(name) == {i \in SectionBullets : BulletName(i) = name}

\* C19: the counts parse_decklist returns map each name to the sum of the
\* counts of the section's bullets with that name, a later bullet adding to
\* an earlier one, and the commander set is the names of the tagged bullets.
C19_CountsAccumulate ==
    (Parsed /\ rparse.ok) =>
        /\ \A k, l \in 1..Len(rparse.counts) :
              k # l => rparse.counts[k].name # rparse.counts[l].name
        /\ {rparse.counts[k].name : k \in 1..Len(rparse.counts)}
              = {BulletName(i) : i \in SectionBullets}
        /\ \A k \in 1..Len(rparse.counts) :
              rparse.counts[k].count = SumBullets(BulletsNamed(rparse.counts[k].name))
        /\ rparse.commanders = {BulletName(i) : i \in {j \in SectionBullets : IsTagged(j)}}

C19_Witness ==
    /\ Parsed /\ rparse.ok
    /\ \E k \in 1..Len(rparse.counts) :
          /\ Cardinality(BulletsNamed(rparse.counts[k].name)) = 2
          /\ rparse.counts[k].count = 3
          /\ rparse.counts[k].name \notin rparse.commanders

\* the text cut down to its Decklist section: the heading and the lines up
\* to the next heading
SectionText == join(<<"\n">>, SubSeq(ParsedLines, SectionStart - 1, SectionEnd))

\* C20: parse_decklist fails exactly when no line is `## Decklist` after
\* trimming and case-folding, and when it succeeds the lines before the
\* heading and from the next heading on change nothing in what it returns.
C20_SectionDecides ==
    Parsed =>
        /\ rparse.ok <=> HeadingLines # {}
        /\ ~rparse.ok => rparse.error = "No '## Decklist' section found"
        /\ rparse.ok => rparse = parse_decklist(SectionText)

C20_Witness ==
    /\ Parsed /\ rparse.ok
    /\ rparse.counts # <<>>
    /\ \E i \in 1..Len(ParsedLines) :
          IsBullet(i) /\ (i < SectionStart - 1 \/ i > SectionEnd)

\* C21: every count parse_decklist returns is at least 1, bullets written
\* with a leading count of 0 included, and every name of the commander set
\* is a key of the counts.
C21_CountsAtLeastOne ==
    (Parsed /\ rparse.ok) =>
        /\ \A k \in 1..Len(rparse.counts) : rparse.counts[k].count >= 1
        /\ rparse.commanders \subseteq {rparse.counts[k].name : k \in 1..Len(rparse.counts)}

\* the half of C21 the parser keeps: commander names are keys of the counts
C21_CommandersAreKeys ==
    (Parsed /\ rparse.ok) =>
        rparse.commanders \subseteq {rparse.counts[k].name : k \in 1..Len(rparse.counts)}

(***************************************************************************)
(* Functions applied to arguments drawn from pools: value_counts,          *)
(* parse_import_rows and slugify.                                          *)
(***************************************************************************)
PricedNames == {<<"K">>, <<"S">>, <<"Q">>, <<"P">>}

PricedCounts ==
    {cs \in UNION {[1..n -> {[name |-> nm, count |-> c] : nm \in PricedNames, c \in 1..MaxCount}] :
                      n \in 0..MaxEntries} :
        \A i, j \in 1..Len(cs) : i # j => cs[i].name # cs[j].name}

Applies(f) == fin # NoResult /\ fin.f = f /\ fout = NoResult

Applied(f) == fin # NoResult /\ fin.f = f /\ fout # NoResult

\* DeckValuer(resolver).value_counts(card_counts, currency=currency)
ValueCounts ==
    /\ Applies("value_counts")
    /\ fout' = [value |-> value_counts(ValueResolver, fin.counts, fin.currency).valuation]
    /\ UNCHANGED <<fin, codecVars, libraryVars, valuationVars, validateVars, rulesVars,
                   inventoryVars>>

\* the price of a card of the counts map, as price_card gives it
PriceOf(i) == price_card(ValueResolver, fin.counts[i].name, fin.currency)

RECURSIVE SumPriced(_)
SumPriced(i) ==
    IF i > Len(fin.counts) THEN 0
    ELSE (IF PriceOf(i).found THEN PriceOf(i).value * fin.counts[i].count ELSE 0)
         + SumPriced(i + 1)

Unpriced == {i \in 1..Len(fin.counts) : ~PriceOf(i).found}

\* C22: value_counts returns the sum of price * count over the entries whose
\* price is present, and as missing the names whose price is absent, each
\* once, in the order of the counts map.
C22_SumsPricedEntries ==
    Applied("value_counts") =>
        /\ fout.value.currency = fin.currency
        /\ fout.value.total = SumPriced(1)
        /\ Len(fout.value.missing_prices) = Cardinality(Unpriced)
        /\ \A i \in Unpriced :
              fout.value.missing_prices[Cardinality({j \in Unpriced : j <= i})]
                  = fin.counts[i].name

C22_Witness ==
    /\ Applied("value_counts")
    /\ fout.value.total > 0
    /\ fout.value.missing_prices # <<>>
    /\ \E i \in 1..Len(fin.counts) : PriceOf(i).found /\ fin.counts[i].count > 1

ImportLinePool ==
    {<<"2", ",", " ", "S">>,
     <<"4", "x", " ", "S">>,
     <<"1", " ", "S">>,
     <<"S", " ", "b">>,
     <<" ">>,
     <<"x", ",", " ", "S">>,
     <<",">>,
     <<"1", "2", " ", " ", "S">>,
     <<>>}

ImportTexts ==
    {join(<<"\n">>, ls) : ls \in UNION {[1..n -> ImportLinePool] : n \in 0..MaxDeckLines}}

\* parse_import_rows(text)
ParseImportRows ==
    /\ Applies("parse_import_rows")
    /\ fout' = [value |-> parse_import_rows(fin.text)]
    /\ UNCHANGED <<fin, codecVars, libraryVars, valuationVars, validateVars, rulesVars,
                   inventoryVars>>

\* the rows of the text that are not blank, in input order
ImportRows == SelectSeq(splitlines(fin.text), LAMBDA line : strip(line) # <<>>)

\* a line read as digits, an optional x, whitespace and a name: d is the
\* last digit and s the first character of the name
CountedLine(line, d, s) ==
    /\ d < s
    /\ \A i \in 1..d : isdigit(line[i])
    /\ ~isspace(line[s])
    /\ \/ \A i \in (d + 1)..(s - 1) : isspace(line[i])
       \/ /\ line[d + 1] = "x"
          /\ d + 2 < s
          /\ \A i \in (d + 2)..(s - 1) : isspace(line[i])

\* the pair a row gives: a CSV row with a count, a counted line, a bare name
RowGives(row, pair) ==
    LET line == strip(row)
        commas == {i \in 1..Len(line) : line[i] = ","}
    IN  IF commas # {}
        THEN LET count_text == strip(SubSeq(line, 1, SetMin(commas) - 1))
             IN  /\ pair.name = strip(SubSeq(line, SetMin(commas) + 1, Len(line)))
                 /\ str_isdigit(count_text) => pair.count = ParseInt(count_text)
        ELSE IF \E d, s \in 1..Len(line) : CountedLine(line, d, s)
        THEN \E d, s \in 1..Len(line) :
                /\ CountedLine(line, d, s)
                /\ pair.count = ParseInt(SubSeq(line, 1, d))
                /\ pair.name = SubSeq(line, s, Len(line))
        ELSE pair.count = 1 /\ pair.name = line

\* C23: parse_import_rows returns one (count, name) pair per non-blank row,
\* in input order: `count, name` gives (count, name), `<digits> <name>` and
\* `<digits>x <name>` give (digits, name), any other line gives (1, line).
C23_OnePairPerRow ==
    Applied("parse_import_rows") =>
        /\ Len(fout.value) = Len(ImportRows)
        /\ \A k \in 1..Len(ImportRows) : RowGives(ImportRows[k], fout.value[k])

MaxSlugLen == 4

SlugTexts == StringsUpTo({"a", "B", " ", "-", "_", "!"}, MaxSlugLen)

\* slugify(text)
Slugify ==
    /\ Applies("slugify")
    /\ fout' = [value |-> slugify(fin.text)]
    /\ UNCHANGED <<fin, codecVars, libraryVars, valuationVars, validateVars, rulesVars,
                   inventoryVars>>

\* the letters and digits of the text, by position
Alnums(text) == {i \in 1..Len(text) : isalnum(text[i])}

\* the slug read off the text: its letters and digits in lower case, with
\* one hyphen between two of them exactly when a character counted as a
\* separator lies between them, and the fallback token when there are none
RECURSIVE SlugFrom(_, _, _)
SlugFrom(text, i, separators) ==
    IF \A j \in Alnums(text) : j < i THEN <<>>
    ELSE LET p == SetMin({j \in Alnums(text) : j >= i})
             later == {j \in Alnums(text) : j > p}
         IN  <<lowerChar(text[p])>>
             \o (IF later # {} /\ \E j \in (p + 1)..(SetMin(later) - 1) : text[j] \in separators
                 THEN <<"-">> ELSE <<>>)
             \o SlugFrom(text, p + 1, separators)

ExpectedSlug(text, separators) ==
    IF Alnums(text) = {} THEN <<"d", "e", "c", "k">> ELSE SlugFrom(text, 1, separators)

\* C25 as stated: every maximal run of characters that are not letters or
\* digits becomes one hyphen.
C25_RunsBecomeHyphens ==
    Applied("slugify") =>
        fout.value = ExpectedSlug(fin.text, {c \in Range(fin.text) : ~isalnum(c)})

\* C25: the slug is the lowercased name without the characters that are
\* neither letters, digits, spaces, hyphens nor underscores, with every run
\* of spaces, hyphens and underscores left turned into one hyphen, hyphens
\* at either end removed, and `deck` when nothing remains.
C25_SeparatorsBecomeHyphens ==
    Applied("slugify") =>
        fout.value = ExpectedSlug(fin.text, {" ", "-", "_"})

C25_Witness ==
    /\ Applied("slugify")
    /\ \E i, j \in 1..Len(fin.text) : fin.text[i] = "!" /\ fin.text[j] \in {" ", "_"}
    /\ "-" \in Range(fout.value)
    /\ fout.value # lower(fin.text)

\* the library after create_deck under the display name, in a directory
\* that has room for the one file
CreatedUnder(name) ==
    create_deck([s \in {slugify(name)} |-> NoFile], name, LibCommander, <<>>,
                DefaultFormat, "none").files

JNull == [t |-> "null"]
JString == [t |-> "string"]
JFields(fields) == [t |-> "fields", fields |-> fields]

NoCard == [found |-> FALSE]

payload_get(payload, key, default) ==
    IF key \in DOMAIN payload.fields THEN payload.fields[key] ELSE default

\* ScryfallResolver.resolve(query)
scryfall_resolve(query, response) ==
    IF response.kind # "body" \/ response.json = JInvalid
    THEN [status |-> "ok", card |-> NoCard]
    ELSE IF response.json.t # "fields"
    THEN [status |-> "AttributeError"]
    ELSE LET payload == response.json
             identity == payload_get(payload, "color_identity", NoneVal)
         IN  [status |-> "ok",
              card |-> [found |-> TRUE,
                        name |-> payload_get(payload, "name", query),
                        type_line |-> payload_get(payload, "type_line", NoneVal),
                        color_identity |-> IF Truthy(identity) THEN identity
                                           ELSE payload_get(payload, "colors", NoneVal),
                        prices |-> payload_get(payload, "prices", NoneVal)]]

ScryfallPayloads ==
    {JFields([k \in {} |-> NoneVal]),
     JFields([k \in {"name"} |-> <<"S">>]),
     JFields([k \in {"name", "type_line", "colors"} |-> <<"L">>]),
     JFields([k \in {"color_identity", "colors"} |-> IF k = "colors" THEN <<"G">> ELSE <<>>])}

ScryfallResponses ==
    {[kind |-> k] : k \in {"URLError", "timeout", "HTTPError"}}
    \cup {[kind |-> "body", json |-> j] : j \in {JInvalid, JArray, JNull, JString} \cup ScryfallPayloads}

ScryfallResolve ==
    /\ Applies("resolve")
    /\ fout' = [value |-> scryfall_resolve(fin.query, fin.response)]
    /\ UNCHANGED <<fin, codecVars, libraryVars, valuationVars, validateVars, rulesVars,
                   inventoryVars>>

\* C24: resolve never raises: a transport error, a timeout, a not-found
\* response, a body that is not JSON and a body that is JSON but not an
\* object all give an absent result.
C24_ResolveNeverRaises ==
    Applied("resolve") =>
        /\ fout.value.status = "ok"
        /\ (fin.response.kind # "body" \/ fin.response.json.t # "fields")
              => fout.value.card = NoCard

InitFunctions ==
    /\ CodecIdle /\ LibraryIdle /\ ValuationIdle /\ ValidateIdle /\ RulesIdle /\ InventoryIdle
    /\ fin \in {[f |-> "value_counts", counts |-> cs, currency |-> c] :
                   cs \in PricedCounts, c \in {Usd, UsdUpper, Gbp}}
               \cup {[f |-> "parse_import_rows", text |-> t] : t \in ImportTexts}
               \cup {[f |-> "slugify", text |-> t] : t \in SlugTexts}
               \cup {[f |-> "resolve", query |-> q, response |-> r] :
                         q \in PricedNames, r \in ScryfallResponses}
    /\ fout = NoResult

NextFunctions == ValueCounts \/ ParseImportRows \/ Slugify \/ ScryfallResolve

SpecFunctions == InitFunctions /\ [][NextFunctions]_vars

(***************************************************************************)
(* inventory.py: the spare card inventory, a Markdown table in one file.   *)
(* Mana values are whole numbers and prices hundredths.                    *)
(***************************************************************************)
\* a float that is None
NoFloat == -1

SpareCard(name, count, box, cmc, type_line) ==
    [name |-> name, count |-> count, box |-> box, cmc |-> cmc, type_line |-> type_line]

\* SpareCard.merge(other)
merge(self, other) ==
    [self EXCEPT !.count = self.count + other.count,
                 !.cmc = IF self.cmc = NoFloat THEN other.cmc ELSE self.cmc,
                 !.type_line = IF self.type_line = NoneVal THEN other.type_line
                               ELSE self.type_line]

strip_pipes(s) ==
    LET keep == {i \in 1..Len(s) : s[i] # "|"}
    IN  IF keep = {} THEN <<>> ELSE SubSeq(s, SetMin(keep), SetMax(keep))

rstrip(s) ==
    LET keep == {i \in 1..Len(s) : ~isspace(s[i])}
    IN  IF keep = {} THEN <<>> ELSE SubSeq(s, 1, SetMax(keep))

\* int(value) or 1, for the cell texts of the table
safe_int(value) == IF str_isdigit(value) THEN ParseInt(value) ELSE 1

\* float(value) or None, for the cell texts of the table
safe_float(value) == IF str_isdigit(value) THEN ParseInt(value) ELSE NoFloat

trim_trailing_zero(value) == ToDigits(value)

Unsorted == <<"U", "n", "s", "o", "r", "t", "e", "d">>
NameCell == <<"n", "a", "m", "e">>

\* the part of SparesInventory.load for lines idx onwards
RECURSIVE load_rows(_, _)
load_rows(lines, idx) ==
    IF idx > Len(lines) THEN <<>>
    ELSE
    With(strip(lines[idx]), LAMBDA stripped :
    IF ~startswith(stripped, <<"|">>) THEN load_rows(lines, idx + 1)
    ELSE IF Range(strip(SelectSeq(stripped, LAMBDA c : c # "|"))) \subseteq {"-", " ", ":"}
    THEN load_rows(lines, idx + 1)
    ELSE
    With(split(strip_pipes(stripped), "|"), LAMBDA parts :
    With([i \in 1..Len(parts) |-> strip(parts[i])], LAMBDA cells :
    IF lower(cells[1]) = NameCell THEN load_rows(lines, idx + 1)
    ELSE <<SpareCard(cells[1],
                     IF Len(cells) > 1 THEN safe_int(cells[2]) ELSE 1,
                     IF Len(cells) > 2 THEN cells[3] ELSE Unsorted,
                     IF Len(cells) > 3 THEN safe_float(cells[4]) ELSE NoFloat,
                     IF Len(cells) > 4 THEN cells[5] ELSE NoneVal)>>
         \o load_rows(lines, idx + 1))))

\* SparesInventory.load()
load(file) == IF file = NoFile THEN <<>> ELSE load_rows(splitlines(file), 1)

CardKey(card) == <<casefold(card.name), card.box>>

\* _merge_cards(existing, new_cards): by_key in insertion order
RECURSIVE merge_from(_, _, _)
merge_from(cards, i, by_key) ==
    IF i > Len(cards) THEN by_key
    ELSE With({k \in 1..Len(by_key) : CardKey(by_key[k]) = CardKey(cards[i])}, LAMBDA at :
         IF at = {}
         THEN merge_from(cards, i + 1, Append(by_key, cards[i]))
         ELSE merge_from(cards, i + 1,
                         [by_key EXCEPT ![SetMin(at)] = merge(by_key[SetMin(at)], cards[i])]))

merge_cards(existing, new_cards) == merge_from(existing \o new_cards, 1, <<>>)

\* _price_cards(entries, currency, resolver)
RECURSIVE price_cards(_, _, _, _)
price_cards(entries, currency, resolver, i) ==
    IF i > Len(entries) THEN [priced |-> <<>>, missing |-> <<>>]
    ELSE With(price_card(resolver, entries[i].name, currency), LAMBDA price :
         With(IF price.found THEN price.value ELSE NoFloat, LAMBDA unit_price :
         With(price_cards(entries, currency, resolver, i + 1), LAMBDA rest :
             [priced |-> <<[card |-> entries[i], price |-> unit_price]>> \o rest.priced,
              missing |-> (IF unit_price = NoFloat THEN <<entries[i].name>> ELSE <<>>)
                          \o rest.missing])))

OrZero(v) == IF v = NoFloat THEN 0 ELSE v

\* the order of two priced entries under the sort key
sort_before(a, b, key) ==
    IF key = "value" THEN OrZero(a.price) * a.card.count > OrZero(b.price) * b.card.count
    ELSE IF key = "cmc"
    THEN \/ a.card.cmc # NoFloat /\ b.card.cmc = NoFloat
         \/ /\ (a.card.cmc = NoFloat) = (b.card.cmc = NoFloat)
            /\ OrZero(a.card.cmc) < OrZero(b.card.cmc)
    ELSE str_less(casefold(a.card.name), casefold(b.card.name))

\* _sort_cards(entries, key): sorted() is stable
RECURSIVE sort_cards(_, _)
sort_cards(entries, key) ==
    IF entries = <<>> THEN <<>>
    ELSE With(SetMin({i \in 1..Len(entries) :
                         \A j \in 1..Len(entries) : ~sort_before(entries[j], entries[i], key)}),
              LAMBDA first :
                 <<entries[first]>>
                 \o sort_cards(SubSeq(entries, 1, first - 1)
                               \o SubSeq(entries, first + 1, Len(entries)), key))

\* _format_currency(value, currency), for values below 1,000.00
format_currency(value, currency) ==
    IF value = NoFloat THEN <<"U", "n", "k", "n", "o", "w", "n">>
    ELSE LET formatted == ToDigits(value \div 100) \o <<".">> \o Pad(value % 100, 2)
             code == lower(currency)
         IN  IF code = Usd THEN <<"$">> \o formatted
             ELSE IF code = <<"e", "u", "r">> THEN <<"€">> \o formatted
             ELSE IF code = lower(Gbp) THEN <<"£">> \o formatted
             ELSE upper(currency) \o <<" ">> \o formatted

TableRow(cells) == <<"|", " ">> \o join(<<" ", "|", " ">>, cells) \o <<" ", "|">>

write_row(entry, currency) ==
    LET total == OrZero(entry.price) * entry.card.count
    IN  TableRow(<<entry.card.name,
                   ToDigits(entry.card.count),
                   entry.card.box,
                   IF entry.card.cmc = NoFloat THEN <<>> ELSE trim_trailing_zero(entry.card.cmc),
                   IF Truthy(entry.card.type_line) THEN entry.card.type_line ELSE <<>>,
                   format_currency(entry.price, currency),
                   format_currency(IF entry.price # NoFloat THEN total ELSE NoFloat, currency)>>)

\* SparesInventory._write(entries, currency): the text of the file
write(entries, currency) ==
    rstrip(join(<<"\n">>,
                <<<<"#", " ", "S", "p", "a", "r", "e", " ", "C", "a", "r", "d", " ", "I", "n", "v", "e", "n", "t", "o", "r", "y">>, <<>>, <<"C", "u", "r", "r", "e", "n", "c", "y", ":", " ">> \o upper(currency), <<>>, <<"|", " ", "N", "a", "m", "e", " ", "|", " ", "C", "o", "u", "n", "t", " ", "|", " ", "B", "o", "x", " ", "|", " ", "C", "M", "C", " ", "|", " ", "T", "y", "p", "e", " ", "|", " ", "U", "n", "i", "t", " ", "V", "a", "l", "u", "e", " ", "|", " ", "T", "o", "t", "a", "l", " ", "V", "a", "l", "u", "e", " ", "|">>, <<"|", " ", "-", "-", "-", " ", "|", " ", "-", "-", "-", " ", "|", " ", "-", "-", "-", " ", "|", " ", "-", "-", "-", " ", "|", " ", "-", "-", "-", " ", "|", " ", "-", "-", "-", " ", "|", " ", "-", "-", "-", " ", "|">>>>
                \o [i \in 1..Len(entries) |-> write_row(entries[i], currency)]))
    \o <<"\n">>

\* SparesInventory.add_cards(new_cards, currency, resolver, sort_by)
add_cards(file, new_cards, currency, resolver, sort_by) ==
    With(load(file), LAMBDA existing :
    With(merge_cards(existing, new_cards), LAMBDA merged :
    With(price_cards(merged, currency, resolver, 1), LAMBDA priced :
    With(sort_cards(priced.priced, sort_by), LAMBDA sorted_entries :
        [file |-> write(sorted_entries, currency),
         entries |-> sorted_entries,
         missing |-> priced.missing]))))

(***************************************************************************)
(* The spare inventory: a file left by earlier runs or written by hand,    *)
(* and a bounded number of add operations.                                 *)
(***************************************************************************)
MaxAdds == 2
MaxNewCards == 2

\* a table written by hand: a full row and a row with the name only
HandFile ==
    <<"|", " ", "N", "a", "m", "e", " ", "|", " ", "C", "o", "u", "n", "t", " ", "|", " ", "B", "o", "x", " ", "|", "\n", "|", " ", "-", "-", "-", " ", "|", " ", "-", "-", "-", " ", "|", " ", "-", "-", "-", " ", "|", "\n", "|", " ", "S", " ", "|", " ", "2", " ", "|", " ", "A", " ", "|", " ", "1", " ", "|", " ", "L", " ", "|", " ", "U", "n", "k", "n", "o", "w", "n", " ", "|", " ", "U", "n", "k", "n", "o", "w", "n", " ", "|", "\n", "|", " ", "Q", " ", "|", "\n">>

SpareL == <<"L">>
SparePool ==
    {SpareCard(<<"S">>, 1, <<"A">>, NoFloat, NoneVal),
     SpareCard(<<"s">>, 2, <<"A">>, 1, SpareL),
     SpareCard(<<"S">>, 1, <<"B">>, NoFloat, SpareL),
     SpareCard(<<"Q">>, 2, <<"A">>, 2, NoneVal)}

NewCardLists == UNION {[1..n -> SparePool] : n \in 1..MaxNewCards}

InitInventory ==
    /\ CodecIdle /\ LibraryIdle /\ ValuationIdle /\ ValidateIdle /\ RulesIdle /\ FunctionsIdle
    /\ invFile \in {NoFile, HandFile}
    /\ iop = NoResult
    /\ ninv = 0

\* SparesInventory(path).add_cards(new_cards, currency=..., resolver=..., sort_by=...)
AddCards ==
    /\ ninv < MaxAdds
    /\ \E new_cards \in NewCardLists, sort_by \in {"name", "value"} :
          \E r \in {add_cards(invFile, new_cards, Usd, ValueResolver, sort_by)} :
             /\ invFile' = r.file
             /\ iop' = [before |-> invFile, new_cards |-> new_cards,
                        entries |-> r.entries, missing |-> r.missing]
    /\ ninv' = ninv + 1
    /\ UNCHANGED <<codecVars, libraryVars, valuationVars, validateVars, rulesVars, functionVars>>

NextInventory == AddCards

SpecInventory == InitInventory /\ [][NextInventory]_vars

\* the entries of the inventory file, and the cards the last add merged
Stored == load(invFile)
MergedCards == load(iop.before) \o iop.new_cards
SameKey(card, key) == CardKey(card) = key

RECURSIVE SumCardCounts(_)
SumCardCounts(cards) ==
    IF cards = <<>> THEN 0 ELSE cards[1].count + SumCardCounts(Tail(cards))

IsMissing(v) == v = NoneVal \/ v = <<>>

\* no two entries of the file share a key
C27_KeysUnique ==
    \E stored \in {Stored} :
        \A i, j \in 1..Len(stored) : CardKey(stored[i]) = CardKey(stored[j]) => i = j

\* each entry's count is the sum of the stored and the added counts with its key
C27_CountsSum ==
    iop # NoResult =>
        \E stored \in {Stored}, merged \in {MergedCards} :
            /\ {CardKey(c) : c \in Range(stored)} = {CardKey(c) : c \in Range(merged)}
            /\ \A i \in 1..Len(stored) :
                  stored[i].count
                     = SumCardCounts(SelectSeq(merged, LAMBDA c : SameKey(c, CardKey(stored[i]))))

\* a mana value or type line that some merged card with the key holds is held by the entry
C27_AttributesFilled ==
    iop # NoResult =>
        \E stored \in {Stored}, merged \in {MergedCards} :
            \A i \in 1..Len(stored) : \A j \in 1..Len(merged) :
                SameKey(merged[j], CardKey(stored[i])) =>
                    /\ merged[j].cmc # NoFloat => stored[i].cmc # NoFloat
                    /\ ~IsMissing(merged[j].type_line) => ~IsMissing(stored[i].type_line)

\* C27: after any sequence of add operations no two entries share a key
\* (case-folded name, box), each entry's count is the sum of the stored and
\* added counts with its key, and a missing mana value or type line is
\* filled from an entry with the same key.
C27_MergedInventory == C27_KeysUnique /\ C27_CountsSum /\ C27_AttributesFilled

====
